---- MODULE Spec2Model ----
(***************************************************************************)
(* Verification model of the CME L2 feed handler of JoeYang/marketdata:    *)
(* the per-instrument order book (src/src/cme/cme_order_book.cpp), the     *)
(* per-instrument recovery state machine (src/src/cme/recovery_state.cpp)  *)
(* and the dispatch / conflation loop (src/src/cme/cme_feedhandler.cpp).   *)
(***************************************************************************)
EXTENDS Integers, Sequences, FiniteSets, TLC

(***************************************************************************)
(* Bounds of the model.                                                    *)
(***************************************************************************)
\* Width of uint32_t in the model: uint32_t arithmetic is modulo 2^U32Bits
\* (uint64_t is twice as wide).
U32Bits == 3
\* Datagrams received over a run (caps stats_.messages_received).
MaxMessages == 3
\* Datagrams received over a run of the book specification.
MaxBookMessages == 2
MaxFrameDatagrams == 3
MaxLadderMessages == 1
\* Datagrams received over a run of the timeout specification.
MaxTimeoutMessages == 3
\* The largest reading of the clock, the recovery timeout, and the cap on
\* recovery_attempts over a run of the timeout specification.
MaxClock == 4
recovery_timeout_ns == 2
MaxAttempts == 3
\* Datagrams received over a run of the price specification.
MaxPriceMessages == 2
\* Datagrams received over a run of the convergence specification, and the
\* last rpt_seq of its stream.
MaxConvergeDatagrams == 6
MaxPosition == 6

(***************************************************************************)
(* Program constants.                                                      *)
(***************************************************************************)
CME_MAX_DEPTH == 10
MAX_DEPTH == 10
MAX_LEVELS == 10
SECURITY_ID_ESH26 == 1001
SECURITY_ID_NQM26 == 1002
TEMPLATE_CHANNEL_RESET == 4
TEMPLATE_HEARTBEAT == 12
TEMPLATE_SECURITY_DEFINITION == 27
TEMPLATE_MD_INCREMENTAL_REFRESH == 32
TEMPLATE_MD_SNAPSHOT_FULL_REFRESH == 38
SEND_BUFFER_SIZE == 1500
SIZEOF_MESSAGE_HEADER == 8
SIZEOF_GROUP_HEADER == 3
SIZEOF_PRICE_LEVEL_ENTRY == 15
SIZEOF_L2_SNAPSHOT_ROOT == 46

\* sizeof of the packed wire structs of the CME feed (cme_protocol.h)
SIZEOF_PacketHeader == 12
SIZEOF_SBEMessageHeader == 8
SIZEOF_SecurityDefinition == 45
SIZEOF_MDIncrementalRefreshEntry == 24
SIZEOF_MDIncrementalRefreshBook == 19
SIZEOF_MDSnapshotEntry == 16
SIZEOF_MDSnapshotFullRefresh == 31
SIZEOF_ChannelReset == 16
SIZEOF_Heartbeat == 16

\* MDEntryType
Bid == 0
Offer == 1
Trade == 2
ImpliedBid == 69
ImpliedOffer == 70

\* MDUpdateAction
New == 0
Change == 1
Delete == 2
DeleteThru == 3
DeleteFrom == 4
Overlay == 5

\* RecoveryState
Normal == "Normal"
GapDetected == "GapDetected"
Recovering == "Recovering"

U32 == 2 ^ U32Bits
U64 == U32 * U32

\* static_cast<uint32_t>(x) and static_cast<uint64_t>(x) of a signed value.
ToU32(x) == x % U32
ToU64(x) == x % U64

\* C++ integer division: the quotient truncated toward zero.
TruncDiv(a, b) == IF a >= 0 THEN a \div b ELSE -((-a) \div b)

SecurityIds == {SECURITY_ID_ESH26, SECURITY_ID_NQM26}
Slots == 0 .. (CME_MAX_DEPTH - 1)

(***************************************************************************)
(* CmePriceLevel and CmeOrderBook (cme_order_book.h / .cpp).               *)
(***************************************************************************)
CmePriceLevel(p, q, oc) == [price |-> p, quantity |-> q, order_count |-> oc]

ZeroLevel == CmePriceLevel(0, 0, 0)

\* CmeOrderBook::clear: both ladders zeroed, both counts 0; the trade tape and
\* last_rpt_seq_ are not touched.
clear(book) ==
    [book EXCEPT !.bids = [i \in Slots |-> ZeroLevel],
                 !.asks = [i \in Slots |-> ZeroLevel],
                 !.bid_count = 0,
                 !.ask_count = 0]

\* CmeOrderBook::CmeOrderBook: member initialisers, then clear().
NewBook(security_id) ==
    [security_id |-> security_id,
     last_rpt_seq |-> 0,
     bids |-> [i \in Slots |-> ZeroLevel],
     asks |-> [i \in Slots |-> ZeroLevel],
     bid_count |-> 0,
     ask_count |-> 0,
     last_trade_price |-> 0,
     last_trade_qty |-> 0,
     total_volume |-> 0]

\* The New loop left out: idx receives the new level and no slot moves.
ShiftDown_NoShift(levels, idx, lvl) ==
    [i \in Slots |-> IF i = idx THEN lvl ELSE levels[i]]

\* The ladder after the New loop: slots below idx shift one deeper, the last
\* slot is discarded, idx receives the new level.
ShiftDown(levels, idx, lvl) ==
    [i \in Slots |-> IF i < idx THEN levels[i]
                     ELSE IF i = idx THEN lvl
                     ELSE levels[i - 1]]

\* The Delete loop left out: only the last slot becomes zero.
ShiftUp_NoShift(levels, idx) ==
    [i \in Slots |-> IF i < CME_MAX_DEPTH - 1 THEN levels[i] ELSE ZeroLevel]

\* The ladder after the Delete loop: slots above idx shift one shallower, the
\* last slot becomes zero.
ShiftUp(levels, idx) ==
    [i \in Slots |-> IF i < idx THEN levels[i]
                     ELSE IF i < CME_MAX_DEPTH - 1 THEN levels[i + 1]
                     ELSE ZeroLevel]

\* The ladder after the DeleteThru loop: slots 0..idx zeroed, the rest kept.
ZeroThru(levels, idx) ==
    [i \in Slots |-> IF i <= idx THEN ZeroLevel ELSE levels[i]]

\* The DeleteFrom loop stopping after its first slot: only idx is zeroed.
ZeroFrom_OnlyIdx(levels, idx) ==
    [i \in Slots |-> IF i = idx THEN ZeroLevel ELSE levels[i]]

\* The ladder after the DeleteFrom loop: slots idx..9 zeroed.
ZeroFrom(levels, idx) ==
    [i \in Slots |-> IF i >= idx THEN ZeroLevel ELSE levels[i]]

\* applyBid with the New branch counting past the capacity of the ladder.
applyBid_NewUncapped(book, level, action, price, qty, orders) ==
    IF level = 0 \/ level > CME_MAX_DEPTH THEN book
    ELSE LET idx == level - 1 IN
      CASE action = New ->
             [book EXCEPT !.bids = ShiftDown(book.bids, idx, CmePriceLevel(price, qty, orders)),
                          !.bid_count = book.bid_count + 1]
        [] action = Change ->
             [book EXCEPT !.bids[idx] = CmePriceLevel(price, qty, orders)]
        [] action = Delete ->
             [book EXCEPT !.bids = ShiftUp(book.bids, idx),
                          !.bid_count = IF book.bid_count > 0
                                        THEN book.bid_count - 1 ELSE book.bid_count]
        [] action = DeleteThru ->
             [book EXCEPT !.bids = ZeroThru(book.bids, idx),
                          !.bid_count = 0]
        [] action = DeleteFrom ->
             [book EXCEPT !.bids = ZeroFrom(book.bids, idx),
                          !.bid_count = idx]
        [] action = Overlay ->
             [book EXCEPT !.bids[idx] = CmePriceLevel(price, qty, orders),
                          !.bid_count = IF idx + 1 > book.bid_count
                                        THEN idx + 1 ELSE book.bid_count]
        [] OTHER -> book

\* CmeOrderBook::applyBid
applyBid(book, level, action, price, qty, orders) ==
    IF level = 0 \/ level > CME_MAX_DEPTH THEN book
    ELSE LET idx == level - 1 IN
      CASE action = New ->
             [book EXCEPT !.bids = ShiftDown(book.bids, idx, CmePriceLevel(price, qty, orders)),
                          !.bid_count = IF book.bid_count < CME_MAX_DEPTH
                                        THEN book.bid_count + 1 ELSE book.bid_count]
        [] action = Change ->
             [book EXCEPT !.bids[idx] = CmePriceLevel(price, qty, orders)]
        [] action = Delete ->
             [book EXCEPT !.bids = ShiftUp(book.bids, idx),
                          !.bid_count = IF book.bid_count > 0
                                        THEN book.bid_count - 1 ELSE book.bid_count]
        [] action = DeleteThru ->
             [book EXCEPT !.bids = ZeroThru(book.bids, idx),
                          !.bid_count = 0]
        [] action = DeleteFrom ->
             [book EXCEPT !.bids = ZeroFrom(book.bids, idx),
                          !.bid_count = idx]
        [] action = Overlay ->
             [book EXCEPT !.bids[idx] = CmePriceLevel(price, qty, orders),
                          !.bid_count = IF idx + 1 > book.bid_count
                                        THEN idx + 1 ELSE book.bid_count]
        [] OTHER -> book

\* applyAsk with the Overlay branch leaving the count as it was.
applyAsk_OverlayKeepsCount(book, level, action, price, qty, orders) ==
    IF level = 0 \/ level > CME_MAX_DEPTH THEN book
    ELSE LET idx == level - 1 IN
      CASE action = New ->
             [book EXCEPT !.asks = ShiftDown(book.asks, idx, CmePriceLevel(price, qty, orders)),
                          !.ask_count = IF book.ask_count < CME_MAX_DEPTH
                                        THEN book.ask_count + 1 ELSE book.ask_count]
        [] action = Change ->
             [book EXCEPT !.asks[idx] = CmePriceLevel(price, qty, orders)]
        [] action = Delete ->
             [book EXCEPT !.asks = ShiftUp(book.asks, idx),
                          !.ask_count = IF book.ask_count > 0
                                        THEN book.ask_count - 1 ELSE book.ask_count]
        [] action = DeleteThru ->
             [book EXCEPT !.asks = ZeroThru(book.asks, idx),
                          !.ask_count = 0]
        [] action = DeleteFrom ->
             [book EXCEPT !.asks = ZeroFrom(book.asks, idx),
                          !.ask_count = idx]
        [] action = Overlay ->
             [book EXCEPT !.asks[idx] = CmePriceLevel(price, qty, orders)]
        [] OTHER -> book

\* CmeOrderBook::applyAsk
applyAsk(book, level, action, price, qty, orders) ==
    IF level = 0 \/ level > CME_MAX_DEPTH THEN book
    ELSE LET idx == level - 1 IN
      CASE action = New ->
             [book EXCEPT !.asks = ShiftDown(book.asks, idx, CmePriceLevel(price, qty, orders)),
                          !.ask_count = IF book.ask_count < CME_MAX_DEPTH
                                        THEN book.ask_count + 1 ELSE book.ask_count]
        [] action = Change ->
             [book EXCEPT !.asks[idx] = CmePriceLevel(price, qty, orders)]
        [] action = Delete ->
             [book EXCEPT !.asks = ShiftUp(book.asks, idx),
                          !.ask_count = IF book.ask_count > 0
                                        THEN book.ask_count - 1 ELSE book.ask_count]
        [] action = DeleteThru ->
             [book EXCEPT !.asks = ZeroThru(book.asks, idx),
                          !.ask_count = 0]
        [] action = DeleteFrom ->
             [book EXCEPT !.asks = ZeroFrom(book.asks, idx),
                          !.ask_count = idx]
        [] action = Overlay ->
             [book EXCEPT !.asks[idx] = CmePriceLevel(price, qty, orders),
                          !.ask_count = IF idx + 1 > book.ask_count
                                        THEN idx + 1 ELSE book.ask_count]
        [] OTHER -> book

\* CmeOrderBook::recordTrade
recordTrade(book, price, quantity) ==
    [book EXCEPT !.last_trade_price = price,
                 !.last_trade_qty = quantity,
                 !.total_volume = (book.total_volume + ToU64(quantity)) % U64]

\* applyUpdate with the implied entry types left out of the two ladder
\* branches.
applyUpdate_PlainOnly(book, entry) ==
    LET type == entry.md_entry_type
        b1 == IF type = Bid
                THEN applyBid(book, entry.md_price_level, entry.md_update_action,
                              entry.md_entry_px, entry.md_entry_size, entry.number_of_orders)
              ELSE IF type = Offer
                THEN applyAsk(book, entry.md_price_level, entry.md_update_action,
                              entry.md_entry_px, entry.md_entry_size, entry.number_of_orders)
              ELSE IF type = Trade
                THEN recordTrade(book, entry.md_entry_px, entry.md_entry_size)
              ELSE book
    IN IF entry.rpt_seq > b1.last_rpt_seq
         THEN [b1 EXCEPT !.last_rpt_seq = entry.rpt_seq]
         ELSE b1

\* CmeOrderBook::applyUpdate
applyUpdate(book, entry) ==
    LET type == entry.md_entry_type
        b1 == IF type = Bid \/ type = ImpliedBid
                THEN applyBid(book, entry.md_price_level, entry.md_update_action,
                              entry.md_entry_px, entry.md_entry_size, entry.number_of_orders)
              ELSE IF type = Offer \/ type = ImpliedOffer
                THEN applyAsk(book, entry.md_price_level, entry.md_update_action,
                              entry.md_entry_px, entry.md_entry_size, entry.number_of_orders)
              ELSE IF type = Trade
                THEN recordTrade(book, entry.md_entry_px, entry.md_entry_size)
              ELSE book
    IN IF entry.rpt_seq > b1.last_rpt_seq
         THEN [b1 EXCEPT !.last_rpt_seq = entry.rpt_seq]
         ELSE b1

\* The loop body of applySnapshot with a level beyond the depth written to the
\* last slot instead of being skipped.
SnapshotEntryStep_ClampLevel(book, entry) ==
    IF entry.md_price_level = 0 THEN book
    ELSE LET idx == (IF entry.md_price_level > CME_MAX_DEPTH
                       THEN CME_MAX_DEPTH ELSE entry.md_price_level) - 1
             lvl == CmePriceLevel(entry.md_entry_px, entry.md_entry_size, entry.number_of_orders)
         IN IF entry.md_entry_type = Bid
              THEN [book EXCEPT !.bids[idx] = lvl,
                                !.bid_count = IF idx + 1 > book.bid_count
                                              THEN idx + 1 ELSE book.bid_count]
            ELSE IF entry.md_entry_type = Offer
              THEN [book EXCEPT !.asks[idx] = lvl,
                                !.ask_count = IF idx + 1 > book.ask_count
                                              THEN idx + 1 ELSE book.ask_count]
            ELSE book

\* One iteration of the loop of CmeOrderBook::applySnapshot.
SnapshotEntryStep(book, entry) ==
    IF entry.md_price_level = 0 \/ entry.md_price_level > CME_MAX_DEPTH THEN book
    ELSE LET idx == entry.md_price_level - 1
             lvl == CmePriceLevel(entry.md_entry_px, entry.md_entry_size, entry.number_of_orders)
         IN IF entry.md_entry_type = Bid
              THEN [book EXCEPT !.bids[idx] = lvl,
                                !.bid_count = IF idx + 1 > book.bid_count
                                              THEN idx + 1 ELSE book.bid_count]
            ELSE IF entry.md_entry_type = Offer
              THEN [book EXCEPT !.asks[idx] = lvl,
                                !.ask_count = IF idx + 1 > book.ask_count
                                              THEN idx + 1 ELSE book.ask_count]
            ELSE book

RECURSIVE SnapshotLoop(_, _, _)
SnapshotLoop(book, entries, i) ==
    IF i > Len(entries) THEN book
    ELSE SnapshotLoop(SnapshotEntryStep(book, entries[i]), entries, i + 1)

\* applySnapshot without the leading clear(): the entries are written over the
\* prior ladders.
applySnapshot_NoClear(book, entries) == SnapshotLoop(book, entries, 1)

\* CmeOrderBook::applySnapshot
applySnapshot(book, entries) == SnapshotLoop(clear(book), entries, 1)

\* cmeToFixedPrice (cme_protocol.h): 7 decimals to 4 decimals, into uint32_t.
cmeToFixedPrice(cme_price) == ToU32(TruncDiv(cme_price, 1000))

\* l2md::priceToSbe (l2_sbe_messages.h): 4 decimals back to 7 decimals.
priceToSbe(fixedPrice4) == fixedPrice4 * 1000

Min(a, b) == IF a < b THEN a ELSE b

\* CmeOrderBook::getSnapshot: the book in the common output format.
getSnapshot(book) ==
    LET nb == Min(book.bid_count, MAX_DEPTH)
        na == Min(book.ask_count, MAX_DEPTH)
        conv(l) == [price |-> cmeToFixedPrice(l.price),
                    quantity |-> ToU32(l.quantity),
                    order_count |-> l.order_count]
    IN [security_id |-> book.security_id,
        sequence |-> book.last_rpt_seq,
        bids |-> [count |-> nb, levels |-> [i \in 0 .. (nb - 1) |-> conv(book.bids[i])]],
        asks |-> [count |-> na, levels |-> [i \in 0 .. (na - 1) |-> conv(book.asks[i])]],
        last_price |-> cmeToFixedPrice(book.last_trade_price),
        last_quantity |-> ToU32(book.last_trade_qty),
        total_volume |-> book.total_volume]

(***************************************************************************)
(* CmeOrderBookManager: bm = [books, dirty].  books is a function whose     *)
(* domain is the set of instruments that have a book (books_), dirty is    *)
(* dirty_securities_.                                                      *)
(***************************************************************************)
\* f with key k set to v, the key added when absent (std::unordered_map).
Put(f, k, v) == [x \in (DOMAIN f) \cup {k} |-> IF x = k THEN v ELSE f[x]]

EmptyMap == [x \in {} |-> 0]

\* CmeOrderBookManager::getBook: the books after the get-or-create.
getBook(bm, security_id) ==
    IF security_id \in DOMAIN bm.books THEN bm
    ELSE [bm EXCEPT !.books = Put(bm.books, security_id, NewBook(security_id))]

\* CmeOrderBookManager::markDirty
markDirty(bm, security_id) == [bm EXCEPT !.dirty = bm.dirty \cup {security_id}]

\* CmeOrderBookManager::applyIncremental
applyIncremental(bm, entry) ==
    LET b1 == getBook(bm, entry.security_id)
        b2 == [b1 EXCEPT !.books[entry.security_id] =
                             applyUpdate(b1.books[entry.security_id], entry)]
    IN markDirty(b2, entry.security_id)

\* The manager's applySnapshot without the closing markDirty.
managerApplySnapshot_NoMarkDirty(bm, security_id, entries, rpt_seq) ==
    LET b1 == getBook(bm, security_id)
        bk == applySnapshot(b1.books[security_id], entries)
    IN [b1 EXCEPT !.books[security_id] = [bk EXCEPT !.last_rpt_seq = rpt_seq]]

\* CmeOrderBookManager::applySnapshot, with CmeOrderBook::setLastRptSeq.
managerApplySnapshot(bm, security_id, entries, rpt_seq) ==
    LET b1 == getBook(bm, security_id)
        bk == applySnapshot(b1.books[security_id], entries)
        b2 == [b1 EXCEPT !.books[security_id] = [bk EXCEPT !.last_rpt_seq = rpt_seq]]
    IN markDirty(b2, security_id)

\* CmeOrderBookManager::clear
managerClear(bm) == [books |-> EmptyMap, dirty |-> {}]

\* CmeOrderBookManager::getAllSecurityIds
getAllSecurityIds(bm) == DOMAIN bm.books

(***************************************************************************)
(* RecoveryManager (recovery_state.h / .cpp): rm = [states, stats].        *)
(* states is a function whose domain is the set of tracked instruments     *)
(* (states_), stats is RecoveryManager::Stats.  buffered_updates is never  *)
(* appended to by the code and is left out.                                *)
(***************************************************************************)
\* SecurityRecoveryState with its default member initialisers.
DefaultRecoveryState ==
    [state |-> Normal,
     expected_rpt_seq |-> 1,
     last_good_rpt_seq |-> 0,
     snapshot_rpt_seq |-> 0,
     gap_detected_time |-> 0,
     recovery_attempts |-> 0]

\* states_[security_id]: the record, default-constructed when absent.
StateOrDefault(rm, security_id) ==
    IF security_id \in DOMAIN rm.states THEN rm.states[security_id]
    ELSE DefaultRecoveryState

\* RecoveryManager::initSecurity
initSecurity(rm, security_id, initial_seq) ==
    [rm EXCEPT !.states = Put(rm.states, security_id,
        [StateOrDefault(rm, security_id) EXCEPT
            !.expected_rpt_seq = initial_seq,
            !.last_good_rpt_seq = IF initial_seq > 0 THEN initial_seq - 1 ELSE 0,
            !.state = Normal])]

\* onIncrementalMessage with the GapDetected / Recovering case accepting the
\* entry instead of dropping it.
onIncrementalMessage_AcceptInGap(rm, security_id, rpt_seq) ==
    IF security_id \notin DOMAIN rm.states
      THEN [rm |-> initSecurity(rm, security_id, ToU32(rpt_seq + 1)), ret |-> TRUE]
    ELSE LET state == rm.states[security_id] IN
      IF state.state = Normal THEN
        IF rpt_seq >= state.last_good_rpt_seq /\ rpt_seq <= state.expected_rpt_seq
          THEN IF rpt_seq > state.last_good_rpt_seq
                 THEN [rm |-> [rm EXCEPT !.states[security_id].expected_rpt_seq = ToU32(rpt_seq + 1),
                                         !.states[security_id].last_good_rpt_seq = rpt_seq],
                       ret |-> TRUE]
                 ELSE [rm |-> rm, ret |-> TRUE]
        ELSE IF rpt_seq < state.last_good_rpt_seq
          THEN [rm |-> [rm EXCEPT !.stats.messages_dropped = @ + 1], ret |-> FALSE]
        ELSE [rm |-> [rm EXCEPT !.states[security_id].state = GapDetected,
                                !.states[security_id].gap_detected_time = 0,
                                !.states[security_id].recovery_attempts = @ + 1,
                                !.stats.gaps_detected = @ + 1],
              ret |-> FALSE]
      ELSE [rm |-> [rm EXCEPT !.stats.messages_dropped = @ + 1], ret |-> TRUE]

\* onIncrementalMessage without the stale branch: in Normal every entry that
\* is not the last or the next one is taken as a gap.
onIncrementalMessage_StaleIsGap(rm, security_id, rpt_seq) ==
    IF security_id \notin DOMAIN rm.states
      THEN [rm |-> initSecurity(rm, security_id, ToU32(rpt_seq + 1)), ret |-> TRUE]
    ELSE LET state == rm.states[security_id] IN
      IF state.state = Normal THEN
        IF rpt_seq >= state.last_good_rpt_seq /\ rpt_seq <= state.expected_rpt_seq
          THEN IF rpt_seq > state.last_good_rpt_seq
                 THEN [rm |-> [rm EXCEPT !.states[security_id].expected_rpt_seq = ToU32(rpt_seq + 1),
                                         !.states[security_id].last_good_rpt_seq = rpt_seq],
                       ret |-> TRUE]
                 ELSE [rm |-> rm, ret |-> TRUE]
        ELSE [rm |-> [rm EXCEPT !.states[security_id].state = GapDetected,
                                !.states[security_id].gap_detected_time = 0,
                                !.states[security_id].recovery_attempts = @ + 1,
                                !.stats.gaps_detected = @ + 1],
              ret |-> FALSE]
      ELSE [rm |-> [rm EXCEPT !.stats.messages_dropped = @ + 1], ret |-> FALSE]

\* RecoveryManager::onIncrementalMessage: [rm, ret], ret the returned bool.
onIncrementalMessage(rm, security_id, rpt_seq) ==
    IF security_id \notin DOMAIN rm.states
      THEN [rm |-> initSecurity(rm, security_id, ToU32(rpt_seq + 1)), ret |-> TRUE]
    ELSE LET state == rm.states[security_id] IN
      IF state.state = Normal THEN
        IF rpt_seq >= state.last_good_rpt_seq /\ rpt_seq <= state.expected_rpt_seq
          THEN IF rpt_seq > state.last_good_rpt_seq
                 THEN [rm |-> [rm EXCEPT !.states[security_id].expected_rpt_seq = ToU32(rpt_seq + 1),
                                         !.states[security_id].last_good_rpt_seq = rpt_seq],
                       ret |-> TRUE]
                 ELSE [rm |-> rm, ret |-> TRUE]
        ELSE IF rpt_seq < state.last_good_rpt_seq
          THEN [rm |-> [rm EXCEPT !.stats.messages_dropped = @ + 1], ret |-> FALSE]
        ELSE [rm |-> [rm EXCEPT !.states[security_id].state = GapDetected,
                                !.states[security_id].gap_detected_time = 0,
                                !.states[security_id].recovery_attempts = @ + 1,
                                !.stats.gaps_detected = @ + 1],
              ret |-> FALSE]
      ELSE [rm |-> [rm EXCEPT !.stats.messages_dropped = @ + 1], ret |-> FALSE]

\* onSnapshotMessage accepting, in Normal, a snapshot newer than
\* last_good_rpt_seq.
onSnapshotMessage_RefreshInNormal(rm, security_id, snapshot_rpt_seq, last_incr_seq) ==
    IF security_id \notin DOMAIN rm.states
      THEN [rm |-> initSecurity(rm, security_id, ToU32(snapshot_rpt_seq + 1)), ret |-> TRUE]
    ELSE LET state == rm.states[security_id] IN
      CASE state.state = Normal ->
             [rm |-> rm, ret |-> snapshot_rpt_seq > state.last_good_rpt_seq]
        [] state.state = GapDetected ->
             [rm |-> [rm EXCEPT !.states[security_id].state = Recovering,
                                !.states[security_id].snapshot_rpt_seq = snapshot_rpt_seq],
              ret |-> TRUE]
        [] state.state = Recovering ->
             IF snapshot_rpt_seq > state.snapshot_rpt_seq
               THEN [rm |-> [rm EXCEPT !.states[security_id].snapshot_rpt_seq = snapshot_rpt_seq],
                     ret |-> TRUE]
               ELSE [rm |-> rm, ret |-> FALSE]

\* RecoveryManager::onSnapshotMessage: [rm, ret], ret the returned bool.
onSnapshotMessage(rm, security_id, snapshot_rpt_seq, last_incr_seq) ==
    IF security_id \notin DOMAIN rm.states
      THEN [rm |-> initSecurity(rm, security_id, ToU32(snapshot_rpt_seq + 1)), ret |-> TRUE]
    ELSE LET state == rm.states[security_id] IN
      CASE state.state = Normal -> [rm |-> rm, ret |-> FALSE]
        [] state.state = GapDetected ->
             [rm |-> [rm EXCEPT !.states[security_id].state = Recovering,
                                !.states[security_id].snapshot_rpt_seq = snapshot_rpt_seq],
              ret |-> TRUE]
        [] state.state = Recovering ->
             IF snapshot_rpt_seq > state.snapshot_rpt_seq
               THEN [rm |-> [rm EXCEPT !.states[security_id].snapshot_rpt_seq = snapshot_rpt_seq],
                     ret |-> TRUE]
               ELSE [rm |-> rm, ret |-> FALSE]

\* RecoveryManager::completeRecovery
completeRecovery(rm, security_id, rpt_seq) ==
    IF security_id \notin DOMAIN rm.states THEN rm
    ELSE [rm EXCEPT !.states[security_id].state = Normal,
                    !.states[security_id].expected_rpt_seq = ToU32(rpt_seq + 1),
                    !.states[security_id].last_good_rpt_seq = rpt_seq,
                    !.stats.recoveries_completed = @ + 1]

\* RecoveryManager::resetExpectedSeq
resetExpectedSeq(rm, security_id, seq) ==
    [rm EXCEPT !.states = Put(rm.states, security_id,
        [StateOrDefault(rm, security_id) EXCEPT
            !.expected_rpt_seq = seq,
            !.last_good_rpt_seq = IF seq > 0 THEN seq - 1 ELSE 0,
            !.state = Normal])]

\* RecoveryManager::needsRecovery
needsRecovery(rm) == \E id \in DOMAIN rm.states : rm.states[id].state # Normal

\* RecoveryManager::getState
getState(rm, security_id) ==
    IF security_id \notin DOMAIN rm.states THEN Normal
    ELSE rm.states[security_id].state

\* The test of RecoveryManager::checkTimeouts on one record: outside Normal,
\* a time recorded, and the uint64 difference current_time - gap_detected_time
\* above timeout_ns.
TimedOut(state, current_time, timeout_ns) ==
    /\ state.state # Normal
    /\ state.gap_detected_time # 0
    /\ ToU64(current_time - state.gap_detected_time) > timeout_ns

\* RecoveryManager::checkTimeouts: [rm, timed_out], timed_out the ids of the
\* returned vector (its order is that of the iteration of states_).
checkTimeouts(rm, current_time, timeout_ns) ==
    [rm |-> [rm EXCEPT !.states =
                [id \in DOMAIN rm.states |->
                    LET state == rm.states[id] IN
                    IF state.state = Normal THEN state
                    ELSE IF state.gap_detected_time = 0
                      THEN [state EXCEPT !.gap_detected_time = current_time]
                    ELSE IF ToU64(current_time - state.gap_detected_time) > timeout_ns
                      THEN [state EXCEPT !.recovery_attempts = @ + 1,
                                         !.gap_detected_time = current_time]
                    ELSE state]],
     timed_out |-> {id \in DOMAIN rm.states :
                       TimedOut(rm.states[id], current_time, timeout_ns)}]

(***************************************************************************)
(* CmeFeedHandler (cme_feedhandler.h / .cpp): fh = [bm, rm, stats,         *)
(* output_seq], with bm the book manager, rm the recovery manager, stats   *)
(* the FeedStats counters and output_seq the output sequence.              *)
(***************************************************************************)
\* CmeFeedHandler::handleSecurityDefinition
handleSecurityDefinition(fh, msg) ==
    [fh EXCEPT !.bm = getBook(fh.bm, msg.security_id),
               !.rm = initSecurity(fh.rm, msg.security_id, 1)]

\* The body of the loop of CmeFeedHandler::handleIncrementalRefresh for one entry.
IncrementalEntryStep(fh, entry) ==
    LET r == onIncrementalMessage(fh.rm, entry.security_id, entry.rpt_seq) IN
    IF r.ret
      THEN [fh EXCEPT
              !.rm = r.rm,
              !.bm = applyIncremental(fh.bm, entry),
              !.stats.add_orders = IF entry.md_update_action = New THEN @ + 1 ELSE @,
              !.stats.delete_orders = IF entry.md_update_action = Delete THEN @ + 1 ELSE @,
              !.stats.trades = IF entry.md_entry_type = Trade THEN @ + 1 ELSE @]
      ELSE [fh EXCEPT !.rm = r.rm]

RECURSIVE IncrementalLoop(_, _, _)
IncrementalLoop(fh, entries, i) ==
    IF i > Len(entries) THEN fh
    ELSE IncrementalLoop(IncrementalEntryStep(fh, entries[i]), entries, i + 1)

\* CmeFeedHandler::handleIncrementalRefresh
handleIncrementalRefresh(fh, msg) == IncrementalLoop(fh, msg.entries, 1)

\* handleSnapshotFullRefresh applying an accepted snapshot without calling
\* completeRecovery.
handleSnapshotFullRefresh_NoComplete(fh, msg) ==
    LET r == onSnapshotMessage(fh.rm, msg.security_id, msg.rpt_seq,
                               msg.last_msg_seq_num_processed) IN
    IF r.ret
      THEN [fh EXCEPT
              !.bm = managerApplySnapshot(fh.bm, msg.security_id, msg.entries, msg.rpt_seq),
              !.rm = r.rm]
      ELSE [fh EXCEPT !.rm = r.rm]

\* CmeFeedHandler::handleSnapshotFullRefresh
handleSnapshotFullRefresh(fh, msg) ==
    LET r == onSnapshotMessage(fh.rm, msg.security_id, msg.rpt_seq,
                               msg.last_msg_seq_num_processed) IN
    IF r.ret
      THEN [fh EXCEPT
              !.bm = managerApplySnapshot(fh.bm, msg.security_id, msg.entries, msg.rpt_seq),
              !.rm = completeRecovery(r.rm, msg.security_id, msg.rpt_seq)]
      ELSE [fh EXCEPT !.rm = r.rm]

RECURSIVE ResetLoop(_, _)
ResetLoop(rm, ids) ==
    IF ids = {} THEN rm
    ELSE LET id == CHOOSE x \in ids : TRUE
         IN ResetLoop(resetExpectedSeq(rm, id, 1), ids \ {id})

\* CmeFeedHandler::handleChannelReset: the books are cleared first, and the
\* loop then runs over the ids of the cleared manager.
handleChannelReset(fh, msg) ==
    LET cleared == managerClear(fh.bm) IN
    [fh EXCEPT !.bm = cleared,
               !.rm = ResetLoop(fh.rm, getAllSecurityIds(cleared))]

\* CmeFeedHandler::handleHeartbeat
handleHeartbeat(fh, msg) == fh

\* The switch counting a message of an unknown template as an error.
IncrementalDispatch_UnknownIsError(fh, msg) ==
    CASE msg.template_id = TEMPLATE_SECURITY_DEFINITION -> handleSecurityDefinition(fh, msg)
      [] msg.template_id = TEMPLATE_MD_INCREMENTAL_REFRESH -> handleIncrementalRefresh(fh, msg)
      [] msg.template_id = TEMPLATE_CHANNEL_RESET -> handleChannelReset(fh, msg)
      [] msg.template_id = TEMPLATE_HEARTBEAT -> handleHeartbeat(fh, msg)
      [] OTHER -> [fh EXCEPT !.stats.errors = @ + 1]

\* The switch of CmeFeedHandler::processIncrementalPacket for one message.
IncrementalDispatch(fh, msg) ==
    CASE msg.template_id = TEMPLATE_SECURITY_DEFINITION -> handleSecurityDefinition(fh, msg)
      [] msg.template_id = TEMPLATE_MD_INCREMENTAL_REFRESH -> handleIncrementalRefresh(fh, msg)
      [] msg.template_id = TEMPLATE_CHANNEL_RESET -> handleChannelReset(fh, msg)
      [] msg.template_id = TEMPLATE_HEARTBEAT -> handleHeartbeat(fh, msg)
      [] OTHER -> fh

\* calcIncrementalSize (cme_protocol.h)
calcIncrementalSize(num_entries) ==
    SIZEOF_MDIncrementalRefreshBook + num_entries * SIZEOF_MDIncrementalRefreshEntry

\* calcSnapshotSize (cme_protocol.h)
calcSnapshotSize(num_entries) ==
    SIZEOF_MDSnapshotFullRefresh + num_entries * SIZEOF_MDSnapshotEntry

\* The size the loop of processIncrementalPacket requires for the message it
\* finds at the offset, and advances by: sizeof of the struct, the size
\* computed from num_in_group (the number of entries the message declares),
\* or header plus block_length for a template it does not know.
IncrementalMessageSize(msg) ==
    CASE msg.template_id = TEMPLATE_SECURITY_DEFINITION -> SIZEOF_SecurityDefinition
      [] msg.template_id = TEMPLATE_MD_INCREMENTAL_REFRESH -> calcIncrementalSize(Len(msg.entries))
      [] msg.template_id = TEMPLATE_CHANNEL_RESET -> SIZEOF_ChannelReset
      [] msg.template_id = TEMPLATE_HEARTBEAT -> SIZEOF_Heartbeat
      [] OTHER -> SIZEOF_SBEMessageHeader + msg.block_length

\* The while loop of CmeFeedHandler::processIncrementalPacket.  The receive
\* buffer holds the messages data[i], data[i+1], ... from the offset on, and
\* len bytes of it are the datagram.  A message that does not fit in the
\* datagram ends the processing of the datagram.
RECURSIVE IncrementalPacketLoop(_, _, _, _, _)
IncrementalPacketLoop(fh, data, len, i, offset) ==
    IF ~(offset + SIZEOF_SBEMessageHeader <= len) \/ i > Len(data) THEN fh
    ELSE LET msg_size == IncrementalMessageSize(data[i])
             known == data[i].template_id \in
                        {TEMPLATE_SECURITY_DEFINITION, TEMPLATE_MD_INCREMENTAL_REFRESH,
                         TEMPLATE_CHANNEL_RESET, TEMPLATE_HEARTBEAT} IN
         IF known /\ ~(offset + msg_size <= len) THEN fh
         ELSE IncrementalPacketLoop(IncrementalDispatch(fh, data[i]), data, len,
                                    i + 1, offset + msg_size)

\* CmeFeedHandler::processIncrementalPacket on a datagram of len bytes whose
\* messages are data.  (first_packet_ and last_packet_seq_ only decide whether
\* a line is logged and are not part of the state.)
processIncrementalPacket(fh, data, len) ==
    IF len < SIZEOF_PacketHeader
      THEN [fh EXCEPT !.stats.errors = @ + 1]
      ELSE IncrementalPacketLoop(fh, data, len, 1, SIZEOF_PacketHeader)

\* The body of the loop of CmeFeedHandler::processSnapshotPacket.
SnapshotDispatch(fh, msg) ==
    IF msg.template_id = TEMPLATE_MD_SNAPSHOT_FULL_REFRESH
      THEN handleSnapshotFullRefresh(fh, msg)
      ELSE fh

\* The size the loop of processSnapshotPacket requires and advances by.
SnapshotMessageSize(msg) ==
    IF msg.template_id = TEMPLATE_MD_SNAPSHOT_FULL_REFRESH
      THEN calcSnapshotSize(Len(msg.entries))
      ELSE SIZEOF_SBEMessageHeader + msg.block_length

\* The while loop of CmeFeedHandler::processSnapshotPacket.
RECURSIVE SnapshotPacketLoop(_, _, _, _, _)
SnapshotPacketLoop(fh, data, len, i, offset) ==
    IF ~(offset + SIZEOF_SBEMessageHeader <= len) \/ i > Len(data) THEN fh
    ELSE LET msg_size == SnapshotMessageSize(data[i]) IN
         IF data[i].template_id = TEMPLATE_MD_SNAPSHOT_FULL_REFRESH
              /\ ~(offset + msg_size <= len)
           THEN fh
           ELSE SnapshotPacketLoop(SnapshotDispatch(fh, data[i]), data, len,
                                   i + 1, offset + msg_size)

\* CmeFeedHandler::processSnapshotPacket on a datagram of len bytes whose
\* messages are data.
processSnapshotPacket(fh, data, len) ==
    IF len < SIZEOF_PacketHeader
      THEN [fh EXCEPT !.stats.errors = @ + 1]
      ELSE SnapshotPacketLoop(fh, data, len, 1, SIZEOF_PacketHeader)

\* getSymbolName (cme_protocol.h)
getSymbolName(security_id) ==
    CASE security_id = SECURITY_ID_ESH26 -> "ESH26"
      [] security_id = SECURITY_ID_NQM26 -> "NQM26"
      [] OTHER -> "UNKNOWN"

\* l2md::calcL2SnapshotSize
calcL2SnapshotSize(numBids, numAsks) ==
    SIZEOF_MESSAGE_HEADER + SIZEOF_L2_SNAPSHOT_ROOT
      + SIZEOF_GROUP_HEADER + numBids * SIZEOF_PRICE_LEVEL_ENTRY
      + SIZEOF_GROUP_HEADER + numAsks * SIZEOF_PRICE_LEVEL_ENTRY

\* The message CmeFeedHandler::publishSnapshot encodes from snap (the wall-clock
\* timestamp is left out).
EncodeSnapshot(snap) ==
    LET numBids == Min(snap.bids.count, MAX_LEVELS)
        numAsks == Min(snap.asks.count, MAX_LEVELS)
        entry(levels, i) == [level |-> i + 1,
                             price |-> priceToSbe(levels[i].price),
                             quantity |-> levels[i].quantity,
                             numOrders |-> levels[i].order_count]
    IN [symbol |-> getSymbolName(snap.security_id),
        sequenceNumber |-> snap.sequence,
        lastTradePrice |-> priceToSbe(snap.last_price),
        lastTradeQty |-> snap.last_quantity,
        totalVolume |-> snap.total_volume,
        bidCount |-> numBids,
        askCount |-> numAsks,
        bids |-> [i \in 1 .. numBids |-> entry(snap.bids.levels, i - 1)],
        asks |-> [i \in 1 .. numAsks |-> entry(snap.asks.levels, i - 1)]]

\* CmeFeedHandler::publishSnapshot: p = [fh, out], out the datagrams handed to
\* the output sender so far.
publishSnapshot(p, snap) ==
    LET m == EncodeSnapshot(snap) IN
    IF SEND_BUFFER_SIZE < calcL2SnapshotSize(m.bidCount, m.askCount)
      THEN [p EXCEPT !.fh.stats.errors = @ + 1]
      ELSE [p EXCEPT !.fh.stats.messages_sent = @ + 1,
                     !.out = Append(p.out, m)]

\* The loop body publishing whatever the recovery state of the instrument.
PublishStep_NoStateCheck(p, security_id) ==
    LET bm1 == getBook(p.fh.bm, security_id)
        seq == p.fh.output_seq + 1
        snap == [getSnapshot(bm1.books[security_id]) EXCEPT !.sequence = seq]
    IN publishSnapshot([p EXCEPT !.fh.bm = bm1, !.fh.output_seq = seq], snap)

\* The loop body stamping the snapshot with output_seq_++ (post-increment): the
\* value before the increment goes out.
PublishStep_PostIncrement(p, security_id) ==
    IF getState(p.fh.rm, security_id) = Normal
      THEN LET bm1 == getBook(p.fh.bm, security_id)
               seq == p.fh.output_seq + 1
               snap == [getSnapshot(bm1.books[security_id]) EXCEPT !.sequence = p.fh.output_seq]
           IN publishSnapshot([p EXCEPT !.fh.bm = bm1, !.fh.output_seq = seq], snap)
      ELSE p

\* The body of the loop of CmeFeedHandler::publishConflatedSnapshots.
PublishStep(p, security_id) ==
    IF getState(p.fh.rm, security_id) = Normal
      THEN LET bm1 == getBook(p.fh.bm, security_id)
               seq == p.fh.output_seq + 1
               snap == [getSnapshot(bm1.books[security_id]) EXCEPT !.sequence = seq]
           IN publishSnapshot([p EXCEPT !.fh.bm = bm1, !.fh.output_seq = seq], snap)
      ELSE p

RECURSIVE PublishLoop(_, _, _)
PublishLoop(p, dirty, i) ==
    IF i > Len(dirty) THEN p
    ELSE PublishLoop(PublishStep(p, dirty[i]), dirty, i + 1)

\* CmeFeedHandler::publishConflatedSnapshots, with `dirty` the vector returned
\* by getDirtySecurities (the drained set in the iteration order of the
\* unordered_set).
publishConflatedSnapshots(fh, dirty) ==
    PublishLoop([fh |-> [fh EXCEPT !.bm.dirty = {}], out |-> <<>>], dirty, 1)

\* The orders in which an unordered_set holding the ids may be iterated.
Orderings(ids) ==
    {o \in [1 .. Cardinality(ids) -> ids] : \A i, j \in DOMAIN o : i # j => o[i] # o[j]}

(***************************************************************************)
(* State of the feed handler.                                              *)
(***************************************************************************)
VARIABLES
    books_,             \* CmeOrderBookManager::books_
    dirty_securities_,  \* CmeOrderBookManager::dirty_securities_
    states_,            \* RecoveryManager::states_
    recovery_stats_,    \* RecoveryManager::stats_
    stats_,             \* CmeFeedHandler::stats_
    output_seq_,        \* CmeFeedHandler::output_seq_
    sent,               \* datagrams handed to output_sender_ by the latest step
    feed                \* the sender of the two channels: the rpt_seq of its
                        \* stream and the snapshot it has produced

vars == <<books_, dirty_securities_, states_, recovery_stats_, stats_, output_seq_, sent, feed>>

\* The feed handler object made of the current values of the variables.
FH ==
    [bm |-> [books |-> books_, dirty |-> dirty_securities_],
     rm |-> [states |-> states_, stats |-> recovery_stats_],
     stats |-> stats_,
     output_seq |-> output_seq_]

\* The feed handler as constructed (default member initialisers).
FH0 ==
    [bm |-> [books |-> EmptyMap, dirty |-> {}],
     rm |-> [states |-> EmptyMap,
             stats |-> [gaps_detected |-> 0, recoveries_completed |-> 0, messages_dropped |-> 0]],
     stats |-> [messages_received |-> 0, messages_sent |-> 0, add_orders |-> 0,
                delete_orders |-> 0, trades |-> 0, errors |-> 0],
     output_seq |-> 0]

\* The sender before it has sent anything: position is the rpt_seq of the
\* last incremental entry it sent, snapshot the rpt_seq of the snapshot it
\* has produced and that is still to be delivered (0 when there is none).
NoFeed == [position |-> 0, snapshot |-> 0]

\* The variables take the fields of fh, out is what the step sent, and the
\* sender is left in state f.
InstallWithFeed(fh, out, f) ==
    /\ books_' = fh.bm.books
    /\ dirty_securities_' = fh.bm.dirty
    /\ states_' = fh.rm.states
    /\ recovery_stats_' = fh.rm.stats
    /\ stats_' = fh.stats
    /\ output_seq_' = fh.output_seq
    /\ sent' = out
    /\ feed' = f

\* The same for a step of the feed handler alone.
Install(fh, out) == InstallWithFeed(fh, out, feed)

\* The sizes of the messages of a datagram on each channel.
IncrementalSizes(data) == [k \in DOMAIN data |-> IncrementalMessageSize(data[k])]

SnapshotSizes(data) == [k \in DOMAIN data |-> SnapshotMessageSize(data[k])]

\* The sizes from the i-th on, summed.
RECURSIVE SumSizes(_, _)
SumSizes(sizes, i) ==
    IF i > Len(sizes) THEN 0 ELSE sizes[i] + SumSizes(sizes, i + 1)

\* The length of the datagram whose messages are exactly data.
IncrementalDatagramLength(data) ==
    SIZEOF_PacketHeader + SumSizes(IncrementalSizes(data), 1)

SnapshotDatagramLength(data) ==
    SIZEOF_PacketHeader + SumSizes(SnapshotSizes(data), 1)

\* CmeFeedHandler::run, incremental socket readable: one datagram of len > 0
\* bytes is read and processed, then counted.
RunIncrementalDatagram(fh, data, len) ==
    [processIncrementalPacket(fh, data, len) EXCEPT !.stats.messages_received = @ + 1]

\* CmeFeedHandler::run, snapshot socket readable: the datagram is processed
\* only when some instrument needs recovery, and counted either way.
RunSnapshotDatagram(fh, data, len) ==
    [(IF needsRecovery(fh.rm) THEN processSnapshotPacket(fh, data, len) ELSE fh)
        EXCEPT !.stats.messages_received = @ + 1]

\* CmeFeedHandler::run, the recovery-timeout sweep at the end of an iteration
\* of the loop, with current_time the value getCurrentTimeNs returned and
\* timeout_ns the configured recovery timeout.
RunCheckTimeouts(fh, current_time, timeout_ns) ==
    [fh EXCEPT !.rm = checkTimeouts(fh.rm, current_time, timeout_ns).rm]

\* The same on a datagram received whole: its length is that of its messages.
RunIncremental(fh, msgs) ==
    RunIncrementalDatagram(fh, msgs, IncrementalDatagramLength(msgs))

RunSnapshot(fh, msgs) ==
    RunSnapshotDatagram(fh, msgs, SnapshotDatagramLength(msgs))

(***************************************************************************)
(* Inputs: the datagrams the two channels deliver.                         *)
(***************************************************************************)
RptSeqs == {1, 2, U32 - 1}

Op(type, action, level, px, size, orders) ==
    [md_entry_type |-> type, md_update_action |-> action, md_price_level |-> level,
     md_entry_px |-> px, md_entry_size |-> size, number_of_orders |-> orders]

IncrementalEntry(id, rpt, op) ==
    [security_id |-> id, rpt_seq |-> rpt,
     md_entry_type |-> op.md_entry_type, md_update_action |-> op.md_update_action,
     md_price_level |-> op.md_price_level, md_entry_px |-> op.md_entry_px,
     md_entry_size |-> op.md_entry_size, number_of_orders |-> op.number_of_orders]

SnapshotEntry(type, level, px, size, orders) ==
    [md_entry_type |-> type, md_price_level |-> level,
     md_entry_px |-> px, md_entry_size |-> size, number_of_orders |-> orders]

IncrementalRefreshMsg(entries) ==
    [template_id |-> TEMPLATE_MD_INCREMENTAL_REFRESH, entries |-> entries]

SnapshotMsg(id, rpt, entries) ==
    [template_id |-> TEMPLATE_MD_SNAPSHOT_FULL_REFRESH, security_id |-> id, rpt_seq |-> rpt,
     last_msg_seq_num_processed |-> 0, entries |-> entries]

SecurityDefinitionMsg(id) ==
    [template_id |-> TEMPLATE_SECURITY_DEFINITION, security_id |-> id]

ChannelResetMsg == [template_id |-> TEMPLATE_CHANNEL_RESET]

HeartbeatMsg == [template_id |-> TEMPLATE_HEARTBEAT]

\* Book operations carried by the entries of the feed specification.
FeedOps ==
    {Op(Bid, New, 1, 2000, 1, 1),
     Op(Offer, Overlay, 2, 3000, 2, 1)}

FeedEntries ==
    {IncrementalEntry(id, rpt, op) : id \in SecurityIds, rpt \in RptSeqs, op \in FeedOps}

\* Entries of the two-entry messages.
FeedPairEntries ==
    {IncrementalEntry(id, rpt, Op(Bid, New, 1, 2000, 1, 1)) : id \in SecurityIds, rpt \in RptSeqs}

\* Incremental messages of one entry and of two entries.
FeedIncrementalMsgs ==
    {IncrementalRefreshMsg(<<e>>) : e \in FeedEntries}
      \cup {IncrementalRefreshMsg(<<e1, e2>>) : e1 \in FeedPairEntries, e2 \in FeedPairEntries}

FeedSnapshotEntries ==
    {<<>>,
     <<SnapshotEntry(Bid, 1, 1000, 3, 2)>>,
     <<SnapshotEntry(Bid, 1, 1000, 3, 2), SnapshotEntry(Offer, 2, 3000, 1, 1)>>}

FeedSnapshotMsgs ==
    {SnapshotMsg(id, rpt, es) : id \in SecurityIds, rpt \in RptSeqs, es \in FeedSnapshotEntries}

(***************************************************************************)
(* The feed specification: Spec.                                           *)
(***************************************************************************)
\* The state after CmeFeedHandler::CmeFeedHandler and start().
Init ==
    /\ books_ = FH0.bm.books
    /\ dirty_securities_ = FH0.bm.dirty
    /\ states_ = FH0.rm.states
    /\ recovery_stats_ = FH0.rm.stats
    /\ stats_ = FH0.stats
    /\ output_seq_ = FH0.output_seq
    /\ sent = <<>>
    /\ feed = NoFeed

\* A datagram holding one IncrementalRefreshBook message arrives.
RecvIncrementalRefresh ==
    /\ stats_.messages_received < MaxMessages
    /\ \E msg \in FeedIncrementalMsgs : Install(RunIncremental(FH, <<msg>>), <<>>)

\* A datagram holding one SecurityDefinition message arrives.
RecvSecurityDefinition ==
    /\ stats_.messages_received < MaxMessages
    /\ \E id \in SecurityIds : Install(RunIncremental(FH, <<SecurityDefinitionMsg(id)>>), <<>>)

\* A datagram holding one ChannelReset message arrives.
RecvChannelReset ==
    /\ stats_.messages_received < MaxMessages
    /\ Install(RunIncremental(FH, <<ChannelResetMsg>>), <<>>)

\* A datagram holding one Heartbeat message arrives.
RecvHeartbeat ==
    /\ stats_.messages_received < MaxMessages
    /\ Install(RunIncremental(FH, <<HeartbeatMsg>>), <<>>)

\* A datagram holding one SnapshotFullRefresh message arrives on the snapshot channel.
RecvSnapshot ==
    /\ stats_.messages_received < MaxMessages
    /\ \E msg \in FeedSnapshotMsgs : Install(RunSnapshot(FH, <<msg>>), <<>>)

\* CmeFeedHandler::run, conflation interval elapsed: the dirty set is drained
\* and published.
ConflationTick ==
    \E dirty \in Orderings(dirty_securities_) :
        LET p == publishConflatedSnapshots(FH, dirty) IN Install(p.fh, p.out)

Next ==
    \/ RecvIncrementalRefresh
    \/ RecvSecurityDefinition
    \/ RecvChannelReset
    \/ RecvHeartbeat
    \/ RecvSnapshot
    \/ ConflationTick

Spec == Init /\ [][Next]_vars

(***************************************************************************)
(* The book specification: SpecBook.  One instrument receives one-entry    *)
(* incremental messages carrying every update action at shallow, deep and  *)
(* out-of-range levels, and snapshots.  A run starts in one of two states  *)
(* of the feed handler, each built from the constructed handler by the     *)
(* handlers themselves: the instrument defined and Normal with an empty    *)
(* book, or in GapDetected with one bid.                                   *)
(***************************************************************************)
BookNormalFH ==
    RunIncremental(RunIncremental(FH0, <<SecurityDefinitionMsg(SECURITY_ID_ESH26)>>),
                   <<HeartbeatMsg>>)

BookGapFH ==
    RunIncremental(
        RunIncremental(FH0, <<IncrementalRefreshMsg(
            <<IncrementalEntry(SECURITY_ID_ESH26, 1, Op(Bid, New, 1, 2000, 1, 1))>>)>>),
        <<IncrementalRefreshMsg(
            <<IncrementalEntry(SECURITY_ID_ESH26, U32 - 1, Op(Bid, New, 1, 2000, 1, 1))>>)>>)

BookLevels == {0, 1, 2, 3, CME_MAX_DEPTH - 1, CME_MAX_DEPTH, CME_MAX_DEPTH + 1}

BookActions == {New, Change, Delete, DeleteThru, DeleteFrom, Overlay}

BookOps ==
    {Op(type, action, level, 2000, 1, 1) :
        type \in {Bid, Offer}, action \in BookActions, level \in BookLevels}
      \cup {Op(ImpliedBid, New, 1, 1000, 2, 1), Op(ImpliedOffer, New, 1, 3000, 2, 1),
            Op(Trade, New, 0, 2000, 1, 0), Op(Trade, Delete, 1, 3000, -1, 0),
            Op(Bid, New, 1, 2000, -1, 1)}

BookIncrementalMsgs ==
    {IncrementalRefreshMsg(<<IncrementalEntry(SECURITY_ID_ESH26, 1, op)>>) : op \in BookOps}

BookSnapshotEntry ==
    {SnapshotEntry(type, level, 1000, 3, 2) :
        type \in {Bid, Offer}, level \in {0, 1, 2, CME_MAX_DEPTH, CME_MAX_DEPTH + 1}}
      \cup {SnapshotEntry(ImpliedBid, 1, 1000, 3, 2), SnapshotEntry(Trade, 1, 1000, 3, 2)}

BookSnapshotMsgs ==
    {SnapshotMsg(SECURITY_ID_ESH26, 1, es) :
        es \in {<<>>} \cup {<<e>> : e \in BookSnapshotEntry}
                 \cup {<<e1, e2>> : e1 \in BookSnapshotEntry, e2 \in BookSnapshotEntry}}

InitBook ==
    \E fh \in {BookNormalFH, BookGapFH} :
        /\ books_ = fh.bm.books
        /\ dirty_securities_ = fh.bm.dirty
        /\ states_ = fh.rm.states
        /\ recovery_stats_ = fh.rm.stats
        /\ stats_ = fh.stats
        /\ output_seq_ = fh.output_seq
        /\ sent = <<>>
        /\ feed = NoFeed

\* Datagrams received before a run of the book specification starts.
BookInitReceived == BookNormalFH.stats.messages_received

BookRecvIncrementalRefresh ==
    /\ stats_.messages_received < BookInitReceived + MaxBookMessages
    /\ \E msg \in BookIncrementalMsgs : Install(RunIncremental(FH, <<msg>>), <<>>)

BookRecvSnapshot ==
    /\ stats_.messages_received < BookInitReceived + MaxBookMessages
    /\ \E msg \in BookSnapshotMsgs : Install(RunSnapshot(FH, <<msg>>), <<>>)

NextBook ==
    \/ BookRecvIncrementalRefresh
    \/ BookRecvSnapshot
    \/ ConflationTick

SpecBook == InitBook /\ [][NextBook]_vars

(***************************************************************************)
(* The framing specification: SpecFrame.  Datagrams of one or two messages *)
(* for one instrument arrive on both channels, received whole or cut short *)
(* at any of the places the parsers compare against the length.            *)
(***************************************************************************)
\* A message of a template neither parser knows.
TEMPLATE_UNKNOWN == 99

UnknownMsg == [template_id |-> TEMPLATE_UNKNOWN, block_length |-> 4]

\* The largest value of the uint16 block_length of a message header.
MAX_BLOCK_LENGTH == 65535

\* Messages of an unknown template with the smallest and the largest
\* block_length a header can carry.
UnknownEmptyMsg == [template_id |-> TEMPLATE_UNKNOWN, block_length |-> 0]

UnknownLongestMsg == [template_id |-> TEMPLATE_UNKNOWN, block_length |-> MAX_BLOCK_LENGTH]

UnknownMsgs == {UnknownEmptyMsg, UnknownMsg, UnknownLongestMsg}

\* recv_buffer_.resize(65536): no datagram is read longer than the buffer.
RECV_BUFFER_SIZE == 65536

FrameEntry(rpt) == IncrementalEntry(SECURITY_ID_ESH26, rpt, Op(Bid, New, 1, 2000, 1, 1))

FrameIncrementalMsgs ==
    {SecurityDefinitionMsg(SECURITY_ID_ESH26), HeartbeatMsg, ChannelResetMsg,
     IncrementalRefreshMsg(<<FrameEntry(1), FrameEntry(2)>>)}
      \cup UnknownMsgs
      \cup {IncrementalRefreshMsg(<<FrameEntry(rpt)>>) : rpt \in RptSeqs}

FrameIncrementalData ==
    {<<m>> : m \in FrameIncrementalMsgs}
      \cup {<<m1, m2>> : m1 \in FrameIncrementalMsgs, m2 \in FrameIncrementalMsgs}

FrameSnapshotMsgs ==
    UnknownMsgs
      \cup {SnapshotMsg(SECURITY_ID_ESH26, rpt, es) : rpt \in {1, 2}, es \in FeedSnapshotEntries}

FrameSnapshotData ==
    {<<m>> : m \in FrameSnapshotMsgs}
      \cup {<<m1, m2>> : m1 \in FrameSnapshotMsgs, m2 \in FrameSnapshotMsgs}

\* The offset at which message k of a datagram starts, given the sizes of its
\* messages.
StartOffset(sizes, k) ==
    SIZEOF_PacketHeader + SumSizes(SubSeq(sizes, 1, k - 1), 1)

\* The lengths a datagram of these messages is received with: one byte, one
\* byte less than the packet header, the packet header alone, and for every
\* message its header less one byte, its header alone, all of it but one
\* byte, and all of it, as far as the receive buffer reaches.
FrameLengths(sizes) ==
    {len \in {1, SIZEOF_PacketHeader - 1, SIZEOF_PacketHeader}
               \cup UNION {{StartOffset(sizes, k) + SIZEOF_SBEMessageHeader - 1,
                            StartOffset(sizes, k) + SIZEOF_SBEMessageHeader,
                            StartOffset(sizes, k) + sizes[k] - 1,
                            StartOffset(sizes, k) + sizes[k]} : k \in DOMAIN sizes} :
        len <= RECV_BUFFER_SIZE}

FrameReceived == stats_.messages_received < MaxFrameDatagrams

\* A datagram arrives on the incremental channel.
FrameRecvIncremental ==
    /\ FrameReceived
    /\ \E data \in FrameIncrementalData :
         \E len \in FrameLengths(IncrementalSizes(data)) :
            Install(RunIncrementalDatagram(FH, data, len), <<>>)

\* A datagram arrives on the snapshot channel.
FrameRecvSnapshot ==
    /\ FrameReceived
    /\ \E data \in FrameSnapshotData :
         \E len \in FrameLengths(SnapshotSizes(data)) :
            Install(RunSnapshotDatagram(FH, data, len), <<>>)

NextFrame ==
    \/ FrameRecvIncremental
    \/ FrameRecvSnapshot

SpecFrame == Init /\ [][NextFrame]_vars

(***************************************************************************)
(* The ladder specification: SpecLadder.  One instrument whose book was    *)
(* filled by a snapshot, every level with contents of its own, receives    *)
(* one-entry incremental messages of every entry type, update action and   *)
(* level, and further snapshots.  A run starts in a state built from the   *)
(* constructed handler by the handlers themselves: a gap, the snapshot     *)
(* that recovers it, and for half of the runs a second gap.                *)
(***************************************************************************)
\* The level a ladder snapshot carries at position L of a side.
LadderBid(L) == SnapshotEntry(Bid, L, 5000 - 100 * L, L, 1)

LadderAsk(L) == SnapshotEntry(Offer, L, 6000 + 100 * L, 10 + L, 2)

\* The entries of a snapshot with nb bids and na asks, bids first.
LadderSnapshotEntries(nb, na) ==
    [k \in 1 .. (nb + na) |-> IF k <= nb THEN LadderBid(k) ELSE LadderAsk(k - nb)]

\* The snapshots that fill the book: ladders of several depths, and one with
\* the third bid only.
LadderSnapshots ==
    {LadderSnapshotEntries(nb, na) : nb \in {0, 1, 2, CME_MAX_DEPTH - 1, CME_MAX_DEPTH},
                                     na \in {0, 2}}
      \cup {<<LadderBid(3)>>}

LadderFilledFH(es) == RunSnapshot(BookGapFH, <<SnapshotMsg(SECURITY_ID_ESH26, 1, es)>>)

LadderGapFH(es) ==
    RunIncremental(LadderFilledFH(es), <<IncrementalRefreshMsg(
        <<IncrementalEntry(SECURITY_ID_ESH26, U32 - 1, Op(Bid, New, 1, 2000, 1, 1))>>)>>)

LadderLevels == {0, 1, 2, CME_MAX_DEPTH, CME_MAX_DEPTH + 1}

LadderOps ==
    {Op(type, action, level, 7000, 5, 4) :
        type \in {Bid, Offer, ImpliedBid, ImpliedOffer},
        action \in BookActions, level \in LadderLevels}
      \cup {Op(Trade, action, level, 7000, size, 0) :
              action \in {New, Delete}, level \in {0, 1}, size \in {5, -1}}

LadderEntries == {IncrementalEntry(SECURITY_ID_ESH26, 1, op) : op \in LadderOps}

\* Messages of one entry, and of two entries whose first is a bid at a level
\* outside 1..10 and whose second is a New bid at level 1.
LadderIncrementalMsgs ==
    {IncrementalRefreshMsg(<<e>>) : e \in LadderEntries}
      \cup {IncrementalRefreshMsg(
                <<e, IncrementalEntry(SECURITY_ID_ESH26, 1, Op(Bid, New, 1, 7100, 6, 3))>>) :
              e \in {x \in LadderEntries : /\ x.md_entry_type = Bid
                                           /\ x.md_price_level \notin 1 .. CME_MAX_DEPTH}}

InitLadder ==
    \E es \in LadderSnapshots : \E fh \in {LadderFilledFH(es), LadderGapFH(es)} :
        /\ books_ = fh.bm.books
        /\ dirty_securities_ = fh.bm.dirty
        /\ states_ = fh.rm.states
        /\ recovery_stats_ = fh.rm.stats
        /\ stats_ = fh.stats
        /\ output_seq_ = fh.output_seq
        /\ sent = <<>>
        /\ feed = NoFeed

\* Datagrams received before the longest start of a run of the ladder
\* specification.
LadderInitReceived == LadderGapFH(<<>>).stats.messages_received

LadderReceived == stats_.messages_received < LadderInitReceived + MaxLadderMessages

LadderRecvIncrementalRefresh ==
    /\ LadderReceived
    /\ \E msg \in LadderIncrementalMsgs : Install(RunIncremental(FH, <<msg>>), <<>>)

LadderRecvSnapshot ==
    /\ LadderReceived
    /\ \E msg \in BookSnapshotMsgs : Install(RunSnapshot(FH, <<msg>>), <<>>)

NextLadder ==
    \/ LadderRecvIncrementalRefresh
    \/ LadderRecvSnapshot

SpecLadder == InitLadder /\ [][NextLadder]_vars

(***************************************************************************)
(* The timeout specification: SpecTimeout.  Two instruments receive        *)
(* one-entry incremental messages and snapshots, and between datagrams the *)
(* loop of run sweeps the recovery records for timeouts.  getCurrentTimeNs *)
(* reads std::chrono::system_clock, which is not a steady clock: a reading *)
(* may be lower than an earlier one, so every sweep draws its reading from *)
(* the whole range of the clock.                                           *)
(***************************************************************************)
\* The readings of the clock (0 is the value of a time not recorded).
ClockReadings == 1 .. MaxClock

TimeoutEntries ==
    {IncrementalEntry(id, rpt, Op(Bid, New, 1, 2000, 1, 1)) : id \in SecurityIds, rpt \in RptSeqs}

TimeoutSnapshotMsgs ==
    {SnapshotMsg(id, 2, <<SnapshotEntry(Bid, 1, 1000, 3, 2)>>) : id \in SecurityIds}

TimeoutReceived == stats_.messages_received < MaxTimeoutMessages

\* No record has reached the cap on recovery_attempts.
AttemptsBelowCap == \A id \in DOMAIN states_ : states_[id].recovery_attempts < MaxAttempts

\* A datagram holding one one-entry IncrementalRefreshBook message arrives.
TimeoutRecvIncrementalRefresh ==
    /\ TimeoutReceived
    /\ \E e \in TimeoutEntries :
          Install(RunIncremental(FH, <<IncrementalRefreshMsg(<<e>>)>>), <<>>)

\* A datagram holding one SnapshotFullRefresh message arrives.
TimeoutRecvSnapshot ==
    /\ TimeoutReceived
    /\ \E msg \in TimeoutSnapshotMsgs : Install(RunSnapshot(FH, <<msg>>), <<>>)

\* The loop of run reaches the recovery-timeout sweep.
TimeoutSweep ==
    /\ AttemptsBelowCap
    /\ \E current_time \in ClockReadings :
          Install(RunCheckTimeouts(FH, current_time, recovery_timeout_ns), <<>>)

NextTimeout ==
    \/ TimeoutRecvIncrementalRefresh
    \/ TimeoutRecvSnapshot
    \/ TimeoutSweep

SpecTimeout == Init /\ [][NextTimeout]_vars

(***************************************************************************)
(* The price specification: SpecPrice.  One instrument receives bids,      *)
(* offers and trades at wire prices (int64, 7 implicit decimals) below,    *)
(* at and above the values whose quotient by 1000 fits 32 bits, negative   *)
(* ones included, and the conflation tick publishes its book.              *)
(***************************************************************************)
WirePrices ==
    {-1500, -1, 0, 999, 1000, 2500, 1000 * U32 - 1, 1000 * U32, 1000 * U32 + 2500}

PriceOps ==
    {Op(Bid, New, 1, px, 1, 1) : px \in WirePrices}
      \cup {Op(Offer, New, 1, px, 1, 1) : px \in WirePrices}
      \cup {Op(Trade, New, 0, px, 1, 0) : px \in WirePrices}

PriceEntries ==
    {IncrementalEntry(SECURITY_ID_ESH26, rpt, op) : rpt \in {1, 2}, op \in PriceOps}

\* A datagram holding one one-entry IncrementalRefreshBook message arrives.
PriceRecvIncrementalRefresh ==
    /\ stats_.messages_received < MaxPriceMessages
    /\ \E e \in PriceEntries :
          Install(RunIncremental(FH, <<IncrementalRefreshMsg(<<e>>)>>), <<>>)

NextPrice ==
    \/ PriceRecvIncrementalRefresh
    \/ ConflationTick

SpecPrice == Init /\ [][NextPrice]_vars

(***************************************************************************)
(* The convergence specification: SpecConverge.  The sender numbers the    *)
(* incremental entries of one instrument 1, 2, 3, ... and produces         *)
(* snapshots that carry the rpt_seq of the stream at the time they are     *)
(* produced (CmeSimulator::sendSnapshotPacket: msg->rpt_seq =              *)
(* book.rpt_seq).  Incremental datagrams arrive in order; they may be lost *)
(* until the feed handler has detected a gap and none is lost from then    *)
(* on.  A snapshot is delivered at any later time, before or after the     *)
(* incremental datagrams sent in between.                                  *)
(***************************************************************************)
ConvergeId == SECURITY_ID_ESH26

ConvergeReceived == stats_.messages_received < MaxConvergeDatagrams

\* The stream goes on: the next rpt_seq is within the run and below the
\* value at which uint32 wraps.
StreamGoesOn == feed.position < MaxPosition /\ feed.position + 1 < U32 - 1

\* The next incremental entry of the stream is sent and arrives.
ConvergeRecvIncremental ==
    /\ ConvergeReceived
    /\ StreamGoesOn
    /\ \E op \in FeedOps :
          InstallWithFeed(
             RunIncremental(FH, <<IncrementalRefreshMsg(
                                    <<IncrementalEntry(ConvergeId, feed.position + 1, op)>>)>>),
             <<>>, [feed EXCEPT !.position = @ + 1])

\* The next incremental entry of the stream is sent and lost; no datagram is
\* lost once a gap has been detected.
ConvergeLoseIncremental ==
    /\ StreamGoesOn
    /\ recovery_stats_.gaps_detected = 0
    /\ InstallWithFeed(FH, <<>>, [feed EXCEPT !.position = @ + 1])

\* The sender produces a snapshot at the rpt_seq of its stream.
ConvergeProduceSnapshot ==
    /\ ConvergeReceived
    /\ feed.snapshot = 0
    /\ feed.position > 0
    /\ InstallWithFeed(FH, <<>>, [feed EXCEPT !.snapshot = feed.position])

\* The snapshot that was produced arrives.
ConvergeRecvSnapshot ==
    /\ ConvergeReceived
    /\ feed.snapshot # 0
    /\ \E es \in FeedSnapshotEntries :
          InstallWithFeed(
             RunSnapshot(FH, <<SnapshotMsg(ConvergeId, feed.snapshot, es)>>),
             <<>>, [feed EXCEPT !.snapshot = 0])

NextConverge ==
    \/ ConvergeRecvIncremental
    \/ ConvergeLoseIncremental
    \/ ConvergeProduceSnapshot
    \/ ConvergeRecvSnapshot

SpecConverge == Init /\ [][NextConverge]_vars

(***************************************************************************)
(* Claims.                                                                 *)
(***************************************************************************)
\* The instrument a published message describes (getSecurityIdFromSymbol).
SecurityIdOf(symbol) == CHOOSE id \in SecurityIds : getSymbolName(id) = symbol

\* C8: in every reachable state of every book, every ladder slot at index >=
\* count on each side is the zero level.
C8_SlotsBeyondCountZero ==
    \A id \in DOMAIN books_ : \A i \in Slots :
        /\ (i >= books_[id].bid_count => books_[id].bids[i] = ZeroLevel)
        /\ (i >= books_[id].ask_count => books_[id].asks[i] = ZeroLevel)

\* C9: in every reachable state of every book, 0 <= bid_count <= 10 and
\* 0 <= ask_count <= 10.
C9_CountsWithinDepth ==
    \A id \in DOMAIN books_ :
        /\ books_[id].bid_count \in 0 .. 10
        /\ books_[id].ask_count \in 0 .. 10

\* C9 witness: a New was applied to a bid side whose count was already 10 (an
\* Overlay at level 10 followed by a New, which pushed the level in slot 9
\* out); the count stayed 10.
C9_Witness_NewOnFullSide ==
    \E id \in DOMAIN books_ :
        /\ stats_.messages_received = BookInitReceived + 2
        /\ stats_.add_orders = 1
        /\ books_[id].bid_count = 10
        /\ books_[id].bids[0] # ZeroLevel
        /\ books_[id].bids[9] = ZeroLevel
        /\ books_[id].ask_count = 0

\* The entries of msg addressed to the instrument id.
EntriesFor(msg, id) == SelectSeq(msg.entries, LAMBDA e : e.security_id = id)

\* C1: while the recovery state of an instrument is GapDetected or Recovering,
\* no incremental entry addressed to it changes its book or its membership of
\* the dirty set; onIncrementalMessage rejects every such entry (it is counted
\* as dropped) and the state stays as it is.  Stated for every incremental
\* message the channel can deliver in the current state.
C1_NoIncrementalAppliedOutsideNormal ==
    stats_.messages_received < MaxMessages =>
      \A id \in DOMAIN states_ : states_[id].state # Normal =>
        /\ \A rpt \in 0 .. (U32 - 1) : ~onIncrementalMessage(FH.rm, id, rpt).ret
        /\ \A msg \in FeedIncrementalMsgs :
             LET after == RunIncremental(FH, <<msg>>) IN
             /\ DOMAIN after.bm.books \cap {id} = DOMAIN books_ \cap {id}
             /\ id \in DOMAIN books_ => after.bm.books[id] = books_[id]
             /\ (id \in after.bm.dirty) <=> (id \in dirty_securities_)
             /\ after.rm.states[id] = states_[id]
             /\ after.rm.stats.messages_dropped
                  >= recovery_stats_.messages_dropped + Len(EntriesFor(msg, id))

\* C1 witness: an instrument with a non-empty book is in GapDetected and an
\* entry has been dropped since the gap was detected.
C1_Witness_DroppedInGap ==
    \E id \in DOMAIN states_ \cap DOMAIN books_ :
        /\ states_[id].state = GapDetected
        /\ books_[id].bid_count > 0
        /\ recovery_stats_.gaps_detected = 1
        /\ recovery_stats_.messages_dropped = 1
        /\ stats_.messages_received = MaxMessages

\* C2: immediately after a ChannelReset is handled, every instrument known
\* before it (with a recovery record or a book) is Normal with
\* expected_rpt_seq = 1 and last_good_rpt_seq = 0, and both of its ladders are
\* empty.
C2_ResetRearmsEveryInstrument ==
    stats_.messages_received < MaxMessages =>
      LET after == RunIncremental(FH, <<ChannelResetMsg>>) IN
      \A id \in DOMAIN states_ \cup DOMAIN books_ :
        /\ id \in DOMAIN after.rm.states
        /\ after.rm.states[id].state = Normal
        /\ after.rm.states[id].expected_rpt_seq = 1
        /\ after.rm.states[id].last_good_rpt_seq = 0
        /\ id \in DOMAIN after.bm.books =>
             /\ after.bm.books[id].bid_count = 0
             /\ after.bm.books[id].ask_count = 0
             /\ \A i \in Slots : /\ after.bm.books[id].bids[i] = ZeroLevel
                                 /\ after.bm.books[id].asks[i] = ZeroLevel

\* The restarted stream for id: one message per rpt_seq 1, 2, 3, each a New
\* bid at level 1.
RestartedStream(id) ==
    [n \in 1 .. 3 |->
        IncrementalRefreshMsg(<<IncrementalEntry(id, n, Op(Bid, New, 1, 2000 + n, 1, 1))>>)]

\* C3: after a ChannelReset, for an instrument that had accepted incrementals
\* up to some rpt_seq N > 1, the restarted stream rpt_seq = 1, 2, 3 is accepted
\* and applied entry by entry: nothing is dropped and no gap is detected.
C3_RestartedStreamAcceptedAfterReset ==
    stats_.messages_received < MaxMessages =>
      \A id \in DOMAIN states_ \cap DOMAIN books_ :
        (states_[id].state = Normal /\ states_[id].last_good_rpt_seq > 1
            /\ books_[id].last_rpt_seq > 1) =>
          LET reset == RunIncremental(FH, <<ChannelResetMsg>>)
              s1 == RunIncremental(reset, <<RestartedStream(id)[1]>>)
              s2 == RunIncremental(s1, <<RestartedStream(id)[2]>>)
              s3 == RunIncremental(s2, <<RestartedStream(id)[3]>>)
          IN /\ s3.rm.stats = reset.rm.stats
             /\ s3.stats.add_orders = reset.stats.add_orders + 3
             /\ id \in DOMAIN s1.bm.books /\ s1.bm.books[id].last_rpt_seq = 1
             /\ s2.bm.books[id].last_rpt_seq = 2
             /\ s3.bm.books[id].last_rpt_seq = 3
             /\ s3.bm.books[id].bid_count = 3
             /\ s3.rm.states[id].state = Normal

\* The ladder a snapshot describes for the entry type: slot i holds the last
\* entry of that type at level i + 1, and is zero when there is none.
SnapshotLadder(entries, type) ==
    [i \in Slots |->
        LET at == {j \in DOMAIN entries : /\ entries[j].md_entry_type = type
                                          /\ entries[j].md_price_level = i + 1}
        IN IF at = {} THEN ZeroLevel
           ELSE LET j == CHOOSE k \in at : \A m \in at : m <= k
                IN CmePriceLevel(entries[j].md_entry_px, entries[j].md_entry_size,
                                 entries[j].number_of_orders)]

\* The deepest level the snapshot gives for the entry type, 0 when none.
SnapshotDepth(entries, type) ==
    LET ls == {entries[j].md_price_level : j \in
                  {k \in DOMAIN entries : /\ entries[k].md_entry_type = type
                                          /\ entries[k].md_price_level \in 1 .. CME_MAX_DEPTH}}
    IN IF ls = {} THEN 0 ELSE CHOOSE l \in ls : \A m \in ls : m <= l

\* C4: when a snapshot with rpt_seq S arrives for an instrument in GapDetected,
\* then after it is handled the book holds exactly the levels of the snapshot,
\* the book's last_rpt_seq is S, the instrument is Normal with
\* expected_rpt_seq = S + 1 and last_good_rpt_seq = S, recoveries_completed has
\* grown by one and the instrument is in the dirty set.
C4_SnapshotInGapRecovers ==
    stats_.messages_received < MaxMessages =>
      \A msg \in FeedSnapshotMsgs :
        LET id == msg.security_id IN
        (id \in DOMAIN states_ /\ states_[id].state = GapDetected) =>
          LET after == RunSnapshot(FH, <<msg>>) IN
          /\ id \in DOMAIN after.bm.books
          /\ after.bm.books[id].bids = SnapshotLadder(msg.entries, Bid)
          /\ after.bm.books[id].asks = SnapshotLadder(msg.entries, Offer)
          /\ after.bm.books[id].bid_count = SnapshotDepth(msg.entries, Bid)
          /\ after.bm.books[id].ask_count = SnapshotDepth(msg.entries, Offer)
          /\ after.bm.books[id].last_rpt_seq = msg.rpt_seq
          /\ after.rm.states[id].state = Normal
          /\ after.rm.states[id].expected_rpt_seq = (msg.rpt_seq + 1) % U32
          /\ after.rm.states[id].last_good_rpt_seq = msg.rpt_seq
          /\ after.rm.stats.recoveries_completed = recovery_stats_.recoveries_completed + 1
          /\ id \in after.bm.dirty

\* C4 witness: an instrument whose gap was detected has been recovered by a
\* snapshot that replaced its book (the snapshot's bid at 1000 is at the top,
\* the bid at 2000 of the incremental stream is gone).
C4_Witness_RecoveredFromGap ==
    \E id \in DOMAIN states_ \cap DOMAIN books_ :
        /\ states_[id].state = Normal
        /\ recovery_stats_.gaps_detected = 1
        /\ recovery_stats_.recoveries_completed = 1
        /\ books_[id].bids[0] = CmePriceLevel(1000, 3, 2)
        /\ books_[id].bid_count = 1
        /\ books_[id].last_rpt_seq = states_[id].last_good_rpt_seq
        /\ id \in dirty_securities_

\* C5: every snapshot published on the output feed describes an instrument
\* whose recovery state was Normal when it was published (a conflation tick
\* leaves the recovery records as they are, so the state after the tick is the
\* state at publication).
C5_PublishedOnlyWhenNormal ==
    \A i \in DOMAIN sent :
        LET id == SecurityIdOf(sent[i].symbol) IN
        /\ id \in DOMAIN states_
        /\ states_[id].state = Normal

\* C5 witness: a tick found two instruments dirty, one of them in GapDetected,
\* and published only the other.
C5_Witness_GapInstrumentSkipped ==
    /\ Len(sent) = 1
    /\ stats_.messages_sent = 1
    /\ stats_.messages_received = 2
    /\ \E id \in DOMAIN states_ : states_[id].state = GapDetected
    /\ \A id \in SecurityIds : id \in DOMAIN books_ /\ books_[id].bid_count > 0

\* C6: the output sequence numbers of the published snapshots are strictly
\* increasing over the whole run, and the first published snapshot carries 1.
\* No published number exceeds output_seq_, output_seq_ never decreases, and
\* the numbers a step publishes are above output_seq_ as it was before the
\* step and increase within the step.
C6_OutputSequenceStrictlyIncreasing ==
    /\ [](\A i \in DOMAIN sent : sent[i].sequenceNumber <= output_seq_)
    /\ [][/\ output_seq_' >= output_seq_
          /\ \A i \in DOMAIN sent' : sent'[i].sequenceNumber > output_seq_
          /\ \A i, j \in DOMAIN sent' :
                i < j => sent'[i].sequenceNumber < sent'[j].sequenceNumber
          /\ (stats_.messages_sent = 0 /\ sent' # <<>>) => sent'[1].sequenceNumber = 1]_vars

\* C6 witness: a second tick has published two snapshots, numbered 2 and 3,
\* after a first tick published number 1.
C6_Witness_SecondTick ==
    /\ Len(sent) = 2
    /\ sent[1].sequenceNumber = 2
    /\ sent[2].sequenceNumber = 3
    /\ output_seq_ = 3

\* What the feed handler holds for the instrument id: its book and its
\* recovery record, each absent or present.
InstrumentView(fh, id) ==
    [book |-> {fh.bm.books[x] : x \in DOMAIN fh.bm.books \cap {id}},
     record |-> {fh.rm.states[x] : x \in DOMAIN fh.rm.states \cap {id}}]

\* The feed handler with every instrument other than id forgotten.
OnlyInstrument(fh, id) ==
    [fh EXCEPT !.bm.books = [x \in DOMAIN fh.bm.books \cap {id} |-> fh.bm.books[x]],
               !.bm.dirty = fh.bm.dirty \cap {id},
               !.rm.states = [x \in DOMAIN fh.rm.states \cap {id} |-> fh.rm.states[x]]]

\* C7: per-instrument recovery is independent.  For every instrument B, what a
\* datagram does to B's book and recovery record is determined by B's own book
\* and record and by the part of the datagram addressed to B: it is the same
\* as in a run in which the other instrument never appeared.  (By induction
\* over the run, B's states, book and applied events then depend only on B's
\* events.)
C7_RecoveryIndependentAcrossInstruments ==
    stats_.messages_received < MaxMessages =>
      \A id \in SecurityIds :
        LET alone == OnlyInstrument(FH, id) IN
        /\ \A msg \in FeedIncrementalMsgs :
             InstrumentView(RunIncremental(FH, <<msg>>), id)
               = InstrumentView(RunIncremental(alone,
                    <<IncrementalRefreshMsg(EntriesFor(msg, id))>>), id)
        /\ \A other \in SecurityIds \ {id} :
             InstrumentView(RunIncremental(FH, <<SecurityDefinitionMsg(other)>>), id)
               = InstrumentView(alone, id)
        /\ InstrumentView(RunIncremental(FH, <<SecurityDefinitionMsg(id)>>), id)
             = InstrumentView(RunIncremental(alone, <<SecurityDefinitionMsg(id)>>), id)
        /\ \A msg \in FeedSnapshotMsgs :
             InstrumentView(RunSnapshot(FH, <<msg>>), id)
               = IF msg.security_id = id
                   THEN InstrumentView(RunSnapshot(alone, <<msg>>), id)
                   ELSE InstrumentView(alone, id)

\* C10: whenever an instrument is Normal and an entry has been accepted for it
\* (its book carries the rpt_seq of an applied entry), expected_rpt_seq equals
\* last_good_rpt_seq + 1 in the arithmetic of the 32-bit unsigned rpt_seq.
C10_ExpectedIsLastGoodPlusOne ==
    \A id \in DOMAIN states_ \cap DOMAIN books_ :
        (states_[id].state = Normal /\ books_[id].last_rpt_seq > 0) =>
            states_[id].expected_rpt_seq = (states_[id].last_good_rpt_seq + 1) % U32

\* C11: for every instrument, the book's last_rpt_seq never decreases over any
\* sequence of accepted incrementals and applied snapshots; only a channel
\* reset, which discards the book, is exempt.
C11_LastRptSeqNeverDecreases ==
    [][\A id \in DOMAIN books_ \cap DOMAIN books_' :
          books_'[id].last_rpt_seq >= books_[id].last_rpt_seq]_vars

\* C12: in every reachable state of every book, the occupied bid levels are
\* sorted strictly descending by price and the occupied ask levels strictly
\* ascending by price.
C12_LaddersSortedByPrice ==
    \A id \in DOMAIN books_ : \A i, j \in Slots :
        /\ (i < j /\ j < books_[id].bid_count) =>
               books_[id].bids[i].price > books_[id].bids[j].price
        /\ (i < j /\ j < books_[id].ask_count) =>
               books_[id].asks[i].price < books_[id].asks[j].price

\* C13: no published snapshot contains a bid or ask level whose quantity is
\* zero or comes from a negative wire quantity: the book quantity behind every
\* emitted level is strictly positive.  (A conflation tick leaves the ladders
\* as they are, so the book after the tick is the book that was published.)
C13_PublishedQuantitiesPositive ==
    \A i \in DOMAIN sent :
        LET id == SecurityIdOf(sent[i].symbol) IN
        /\ \A k \in 1 .. sent[i].bidCount : books_[id].bids[k - 1].quantity > 0
        /\ \A k \in 1 .. sent[i].askCount : books_[id].asks[k - 1].quantity > 0

\* C14: for an instrument in Normal, two consecutive incremental entries
\* carrying the same rpt_seq R, R being expected_rpt_seq at the first, are both
\* accepted; after the first last_good_rpt_seq = R and expected_rpt_seq = R + 1,
\* and the second leaves both, the state and the recovery statistics unchanged.
C14_SameRptSeqTwiceAccepted ==
    \A id \in DOMAIN states_ : states_[id].state = Normal =>
        LET R == states_[id].expected_rpt_seq
            entry == IncrementalEntry(id, R, Op(Bid, Change, 1, 2000, 1, 1))
            s1 == IncrementalEntryStep(FH, entry)
            s2 == IncrementalEntryStep(s1, entry)
        IN /\ onIncrementalMessage(FH.rm, id, R).ret
           /\ onIncrementalMessage(s1.rm, id, R).ret
           /\ s1.rm.states[id].state = Normal
           /\ s1.rm.states[id].last_good_rpt_seq = R
           /\ s1.rm.states[id].expected_rpt_seq = (R + 1) % U32
           /\ s2.rm = s1.rm

\* The instruments for which an entry of `entries` (from index i on) is
\* accepted by the recovery manager, the entries taken in wire order.
RECURSIVE AppliedIds(_, _, _)
AppliedIds(rm, entries, i) ==
    IF i > Len(entries) THEN {}
    ELSE LET r == onIncrementalMessage(rm, entries[i].security_id, entries[i].rpt_seq)
         IN (IF r.ret THEN {entries[i].security_id} ELSE {})
              \cup AppliedIds(r.rm, entries, i + 1)

\* The level a published snapshot carries for position k of a ladder.
PublishedLevel(levels, k) ==
    [level |-> k,
     price |-> priceToSbe(cmeToFixedPrice(levels[k - 1].price)),
     quantity |-> levels[k - 1].quantity % U32,
     numOrders |-> levels[k - 1].order_count]

\* sent holds exactly one snapshot for each instrument of ids, taken from
\* books, and nothing else.
OneSnapshotEach(out, ids, books) ==
    /\ Len(out) = Cardinality(ids)
    /\ \A id \in ids : \E i \in DOMAIN out :
         /\ out[i].symbol = getSymbolName(id)
         /\ out[i].bidCount = books[id].bid_count
         /\ out[i].askCount = books[id].ask_count
         /\ \A k \in 1 .. books[id].bid_count : out[i].bids[k] = PublishedLevel(books[id].bids, k)
         /\ \A k \in 1 .. books[id].ask_count : out[i].asks[k] = PublishedLevel(books[id].asks, k)
         /\ out[i].totalVolume = books[id].total_volume

\* C15: at each conflation tick exactly one snapshot is emitted for every
\* instrument that is Normal and has had an applied incremental entry or an
\* applied snapshot since the previous tick and since the last channel reset,
\* none for any other instrument, the dirty set is empty after the tick and
\* each snapshot reflects the book at the tick.  First part: the dirty set
\* grows by exactly the instruments a datagram is applied for, is emptied by a
\* channel reset and is left alone by the other messages.  Second part: a
\* tick (the step that receives no datagram) publishes one snapshot of the
\* current book per dirty instrument in Normal and empties the dirty set.
C15_TickPublishesEachDirtyNormalOnce ==
    /\ [](stats_.messages_received < MaxMessages =>
            /\ \A msg \in FeedIncrementalMsgs :
                 RunIncremental(FH, <<msg>>).bm.dirty
                   = dirty_securities_ \cup AppliedIds(FH.rm, msg.entries, 1)
            /\ \A msg \in FeedSnapshotMsgs :
                 RunSnapshot(FH, <<msg>>).bm.dirty
                   = dirty_securities_ \cup
                       (IF /\ needsRecovery(FH.rm)
                           /\ onSnapshotMessage(FH.rm, msg.security_id, msg.rpt_seq, 0).ret
                          THEN {msg.security_id} ELSE {})
            /\ \A id \in SecurityIds :
                 RunIncremental(FH, <<SecurityDefinitionMsg(id)>>).bm.dirty = dirty_securities_
            /\ RunIncremental(FH, <<HeartbeatMsg>>).bm.dirty = dirty_securities_
            /\ RunIncremental(FH, <<ChannelResetMsg>>).bm.dirty = {})
    /\ [][stats_'.messages_received = stats_.messages_received =>
            /\ dirty_securities_' = {}
            /\ books_' = books_
            /\ OneSnapshotEach(sent',
                 {id \in dirty_securities_ \cap DOMAIN states_ : states_[id].state = Normal},
                 books_)]_vars

\* C15 witness: a tick has published two snapshots, one of them for an
\* instrument recovered from a gap by a snapshot since the previous tick.
C15_Witness_TickAfterRecovery ==
    /\ Len(sent) = 2
    /\ dirty_securities_ = {}
    /\ recovery_stats_.gaps_detected = 1
    /\ recovery_stats_.recoveries_completed = 1
    /\ stats_.messages_sent = 2

\* C16: an instrument that is in the dirty set at a conflation tick (the step
\* that receives no datagram) and is skipped because its recovery state is not
\* Normal is still in the dirty set after the tick.
C16_SkippedInstrumentStaysDirty ==
    [][stats_'.messages_received = stats_.messages_received =>
          \A id \in dirty_securities_ \cap DOMAIN states_ :
              states_[id].state # Normal => id \in dirty_securities_']_vars

\* C17: whenever a snapshot datagram with rpt_seq S is received for an
\* instrument that has no recovery record yet, a record is created for it in
\* Normal with expected_rpt_seq = S + 1 and last_good_rpt_seq = S, and its book
\* is set to the contents of the snapshot.
C17_SnapshotInitialisesUnknownInstrument ==
    stats_.messages_received < MaxMessages =>
      \A msg \in FeedSnapshotMsgs :
        LET id == msg.security_id IN
        id \notin DOMAIN states_ =>
          LET after == RunSnapshot(FH, <<msg>>) IN
          /\ id \in DOMAIN after.rm.states
          /\ after.rm.states[id].state = Normal
          /\ after.rm.states[id].expected_rpt_seq = (msg.rpt_seq + 1) % U32
          /\ after.rm.states[id].last_good_rpt_seq = msg.rpt_seq
          /\ id \in DOMAIN after.bm.books
          /\ after.bm.books[id].bids = SnapshotLadder(msg.entries, Bid)
          /\ after.bm.books[id].asks = SnapshotLadder(msg.entries, Offer)
          /\ after.bm.books[id].bid_count = SnapshotDepth(msg.entries, Bid)
          /\ after.bm.books[id].ask_count = SnapshotDepth(msg.entries, Offer)

\* C18: a snapshot received for an instrument whose recovery state is Normal is
\* discarded whatever its rpt_seq: the instrument's book (last_rpt_seq
\* included), its recovery record, recoveries_completed and its membership of
\* the dirty set are unchanged.
C18_SnapshotInNormalDiscarded ==
    stats_.messages_received < MaxMessages =>
      \A msg \in FeedSnapshotMsgs :
        LET id == msg.security_id IN
        (id \in DOMAIN states_ /\ states_[id].state = Normal) =>
          LET after == RunSnapshot(FH, <<msg>>) IN
          /\ InstrumentView(after, id) = InstrumentView(FH, id)
          /\ after.rm.stats = recovery_stats_
          /\ (id \in after.bm.dirty) <=> (id \in dirty_securities_)

\* C18 witness: an instrument is Normal with a bid in its book while the other
\* is in GapDetected, so that the snapshot datagrams that arrive are processed
\* and not skipped by the receive loop.
C18_Witness_NormalWhileOtherInGap ==
    \E id \in DOMAIN states_ \cap DOMAIN books_ :
        /\ states_[id].state = Normal
        /\ states_[id].last_good_rpt_seq = 1
        /\ books_[id].bid_count = 1
        /\ \E other \in DOMAIN states_ : states_[other].state = GapDetected
        /\ needsRecovery(FH.rm)
        /\ stats_.messages_received < MaxMessages

\* The messages of a datagram that are of a template its parser recognises.
IncrementalKnown(data) ==
    {k \in DOMAIN data :
        data[k].template_id \in {TEMPLATE_SECURITY_DEFINITION, TEMPLATE_MD_INCREMENTAL_REFRESH,
                                 TEMPLATE_CHANNEL_RESET, TEMPLATE_HEARTBEAT}}

SnapshotKnown(data) ==
    {k \in DOMAIN data : data[k].template_id = TEMPLATE_MD_SNAPSHOT_FULL_REFRESH}

\* A malformed datagram: shorter than the packet header, or holding the header
\* of a recognised message whose size reaches beyond the datagram end.
Malformed(sizes, known, len) ==
    \/ len < SIZEOF_PacketHeader
    \/ \E k \in known :
          /\ StartOffset(sizes, k) + SIZEOF_SBEMessageHeader <= len
          /\ StartOffset(sizes, k) + sizes[k] > len

\* The messages of the datagram that lie whole within its length.
WholeMessages(sizes, data, len) ==
    SubSeq(data, 1, Cardinality({k \in DOMAIN data : StartOffset(sizes, k) + sizes[k] <= len}))

\* What a malformed datagram must leave behind: errors one higher, the books
\* and the recovery records as its whole messages alone leave them, and the
\* datagram counted as received so that the next one is read.
CountedAndCutShort(after, whole) ==
    /\ after.stats.errors = stats_.errors + 1
    /\ after.bm = whole.bm
    /\ after.rm = whole.rm
    /\ after.output_seq = whole.output_seq
    /\ after.stats.messages_received = stats_.messages_received + 1

\* C19: for every malformed datagram, on either channel, the errors counter is
\* incremented, no entry of the truncated message is applied, the messages
\* dispatched earlier in the same datagram stay applied, and processing
\* continues with the next datagram.
C19_MalformedDatagramCountedAndCutShort ==
    FrameReceived =>
      /\ \A data \in FrameIncrementalData :
           \A len \in FrameLengths(IncrementalSizes(data)) :
             Malformed(IncrementalSizes(data), IncrementalKnown(data), len) =>
               CountedAndCutShort(
                  RunIncrementalDatagram(FH, data, len),
                  RunIncremental(FH, WholeMessages(IncrementalSizes(data), data, len)))
      /\ \A data \in FrameSnapshotData :
           \A len \in FrameLengths(SnapshotSizes(data)) :
             Malformed(SnapshotSizes(data), SnapshotKnown(data), len) =>
               CountedAndCutShort(
                  RunSnapshotDatagram(FH, data, len),
                  RunSnapshot(FH, WholeMessages(SnapshotSizes(data), data, len)))

\* C20: for an instrument in Normal, an incremental entry with rpt_seq >
\* expected_rpt_seq moves it to GapDetected, is not applied to the book,
\* increments gaps_detected and recovery_attempts by exactly one each, and
\* leaves expected_rpt_seq and last_good_rpt_seq unchanged.
C20_EntryBeyondExpectedDetectsGap ==
    stats_.messages_received < MaxMessages =>
      \A entry \in FeedEntries :
        LET id == entry.security_id IN
        (/\ id \in DOMAIN states_
         /\ states_[id].state = Normal
         /\ entry.rpt_seq > states_[id].expected_rpt_seq) =>
          LET after == RunIncremental(FH, <<IncrementalRefreshMsg(<<entry>>)>>) IN
          /\ after.rm.states[id].state = GapDetected
          /\ after.bm.books = books_
          /\ after.bm.dirty = dirty_securities_
          /\ after.rm.stats.gaps_detected = recovery_stats_.gaps_detected + 1
          /\ after.rm.states[id].recovery_attempts = states_[id].recovery_attempts + 1
          /\ after.rm.states[id].expected_rpt_seq = states_[id].expected_rpt_seq
          /\ after.rm.states[id].last_good_rpt_seq = states_[id].last_good_rpt_seq

\* C21: for an instrument in Normal, an incremental entry with rpt_seq <
\* last_good_rpt_seq is dropped: it is not applied to the book,
\* messages_dropped grows by exactly one, and the state, expected_rpt_seq,
\* last_good_rpt_seq and gaps_detected are unchanged.
C21_StaleEntryDropped ==
    stats_.messages_received < MaxMessages =>
      \A entry \in FeedEntries :
        LET id == entry.security_id IN
        (/\ id \in DOMAIN states_
         /\ states_[id].state = Normal
         /\ entry.rpt_seq < states_[id].last_good_rpt_seq) =>
          LET after == RunIncremental(FH, <<IncrementalRefreshMsg(<<entry>>)>>) IN
          /\ after.bm = FH.bm
          /\ after.rm.stats.messages_dropped = recovery_stats_.messages_dropped + 1
          /\ after.rm.stats.gaps_detected = recovery_stats_.gaps_detected
          /\ after.rm.states = states_
          /\ after.stats = [stats_ EXCEPT !.messages_received = @ + 1]

\* C21 witness: a stale entry has just been dropped: the instrument is Normal
\* past sequence 1, its book still holds the one bid of its first entry, three
\* datagrams were received and one entry was dropped without any gap.
C21_Witness_StaleDropped ==
    \E id \in DOMAIN states_ \cap DOMAIN books_ :
        /\ states_[id].state = Normal
        /\ states_[id].last_good_rpt_seq = 2
        /\ states_[id].expected_rpt_seq = 3
        /\ books_[id].last_rpt_seq = 2
        /\ books_[id].bid_count = 2
        /\ DOMAIN states_ = {id}
        /\ recovery_stats_.messages_dropped = 1
        /\ recovery_stats_.gaps_detected = 0
        /\ stats_.messages_received = 3
        /\ stats_.add_orders = 2

\* The instrument of the book and ladder specifications.
LadderId == SECURITY_ID_ESH26

\* The side of the book an entry type selects in applyUpdate.
BidSide(type) == type \in {Bid, ImpliedBid}

AskSide(type) == type \in {Offer, ImpliedOffer}

\* The ladder and the count of the side an entry type selects, and those of
\* the other side.
OwnLadder(book, type) == IF BidSide(type) THEN book.bids ELSE book.asks

OwnCount(book, type) == IF BidSide(type) THEN book.bid_count ELSE book.ask_count

OtherLadder(book, type) == IF BidSide(type) THEN book.asks ELSE book.bids

OtherCount(book, type) == IF BidSide(type) THEN book.ask_count ELSE book.bid_count

\* The level an entry carries.
EntryLevel(entry) ==
    CmePriceLevel(entry.md_entry_px, entry.md_entry_size, entry.number_of_orders)

\* The entries of the ladder specification with one update action, on either
\* side, at the levels 1..10.
LadderEntriesInRange(action) ==
    {e \in LadderEntries : /\ e.md_update_action = action
                           /\ BidSide(e.md_entry_type) \/ AskSide(e.md_entry_type)
                           /\ e.md_price_level \in 1 .. CME_MAX_DEPTH}

\* The book of the instrument after the handler received the entry alone in a
\* datagram.
BookAfter(entry) ==
    RunIncremental(FH, <<IncrementalRefreshMsg(<<entry>>)>>).bm.books[LadderId]

\* The instrument is Normal and further datagrams are received: its entries
\* of the ladder specification are applied.
LadderApplies ==
    /\ LadderReceived
    /\ LadderId \in DOMAIN books_
    /\ states_[LadderId].state = Normal

\* C22: New at level L in [1,10]: afterwards position L holds (P,Q,N), every
\* level previously at position i in L..9 is at position i+1, the level
\* previously at position 10 is gone, positions 1..L-1 are unchanged, the
\* other side is unchanged, and count = min(old count + 1, 10).
C22_NewShiftsDeeper ==
    LadderApplies =>
      \A e \in LadderEntriesInRange(New) :
        LET type == e.md_entry_type
            L == e.md_price_level
            old == OwnLadder(books_[LadderId], type)
            new == OwnLadder(BookAfter(e), type) IN
        /\ new[L - 1] = EntryLevel(e)
        /\ \A i \in L .. (CME_MAX_DEPTH - 1) : new[(i + 1) - 1] = old[i - 1]
        /\ \A i \in 1 .. (L - 1) : new[i - 1] = old[i - 1]
        /\ OtherLadder(BookAfter(e), type) = OtherLadder(books_[LadderId], type)
        /\ OtherCount(BookAfter(e), type) = OtherCount(books_[LadderId], type)
        /\ OwnCount(BookAfter(e), type)
             = Min(OwnCount(books_[LadderId], type) + 1, CME_MAX_DEPTH)

\* C22 witness: New at level 1 has acted on a full bid side: the count is still
\* 10, the new level is at position 1, the levels that were at positions 1 and
\* 9 are at positions 2 and 10, and the asks are as the snapshot left them.
C22_Witness_NewOnFullBids ==
    /\ LadderId \in DOMAIN books_
    /\ books_[LadderId].bid_count = CME_MAX_DEPTH
    /\ books_[LadderId].bids[0] = CmePriceLevel(7000, 5, 4)
    /\ books_[LadderId].bids[1] = CmePriceLevel(4900, 1, 1)
    /\ books_[LadderId].bids[CME_MAX_DEPTH - 1] = CmePriceLevel(4100, 9, 1)
    /\ books_[LadderId].ask_count = 2
    /\ books_[LadderId].asks[1] = CmePriceLevel(6200, 12, 2)
    /\ stats_.add_orders = 2

\* C23: Delete at level L in [1,10]: afterwards every level previously at
\* position i in L+1..10 is at position i-1, position 10 is zero, positions
\* 1..L-1 are unchanged, the other side is unchanged, and count =
\* max(old count - 1, 0).
C23_DeleteShiftsShallower ==
    LadderApplies =>
      \A e \in LadderEntriesInRange(Delete) :
        LET type == e.md_entry_type
            L == e.md_price_level
            old == OwnLadder(books_[LadderId], type)
            new == OwnLadder(BookAfter(e), type)
            oldCount == OwnCount(books_[LadderId], type) IN
        /\ \A i \in (L + 1) .. CME_MAX_DEPTH : new[(i - 1) - 1] = old[i - 1]
        /\ new[CME_MAX_DEPTH - 1] = ZeroLevel
        /\ \A i \in 1 .. (L - 1) : new[i - 1] = old[i - 1]
        /\ OtherLadder(BookAfter(e), type) = OtherLadder(books_[LadderId], type)
        /\ OtherCount(BookAfter(e), type) = OtherCount(books_[LadderId], type)
        /\ OwnCount(BookAfter(e), type) = IF oldCount - 1 > 0 THEN oldCount - 1 ELSE 0

\* C23 witness: Delete at level 1 has acted on a full bid side: nine bids are
\* left, the levels that were at positions 2 and 10 are at positions 1 and 9,
\* position 10 is zero, and the asks are as the snapshot left them.
C23_Witness_DeleteOnFullBids ==
    /\ LadderId \in DOMAIN books_
    /\ books_[LadderId].bid_count = CME_MAX_DEPTH - 1
    /\ books_[LadderId].bids[0] = CmePriceLevel(4800, 2, 1)
    /\ books_[LadderId].bids[CME_MAX_DEPTH - 2] = CmePriceLevel(4000, 10, 1)
    /\ books_[LadderId].bids[CME_MAX_DEPTH - 1] = ZeroLevel
    /\ books_[LadderId].ask_count = 2
    /\ stats_.delete_orders = 1

\* C24: DeleteThru at level L in [1,10] on a side occupying positions 1..k:
\* afterwards count = 0 and every slot of that side is zero, for every L and
\* every k.
C24_DeleteThruZeroesWholeSide ==
    LadderApplies =>
      \A e \in LadderEntriesInRange(DeleteThru) :
        /\ OwnCount(BookAfter(e), e.md_entry_type) = 0
        /\ \A i \in Slots : OwnLadder(BookAfter(e), e.md_entry_type)[i] = ZeroLevel

\* C25: DeleteFrom at level L in [1,10]: afterwards positions L..10 of that
\* side are zero, positions 1..L-1 are unchanged, and count = L-1, for every
\* prior count (including prior counts smaller than L-1).
C25_DeleteFromClearsTail ==
    LadderApplies =>
      \A e \in LadderEntriesInRange(DeleteFrom) :
        LET type == e.md_entry_type
            L == e.md_price_level
            old == OwnLadder(books_[LadderId], type)
            new == OwnLadder(BookAfter(e), type) IN
        /\ \A i \in L .. CME_MAX_DEPTH : new[i - 1] = ZeroLevel
        /\ \A i \in 1 .. (L - 1) : new[i - 1] = old[i - 1]
        /\ OwnCount(BookAfter(e), type) = L - 1

\* C25 witness: DeleteFrom at level 10 has acted on a bid side of two levels:
\* the two levels are kept, every deeper slot is zero, and the count is 9.
C25_Witness_DeleteFromBelowCount ==
    /\ LadderId \in DOMAIN books_
    /\ books_[LadderId].bid_count = CME_MAX_DEPTH - 1
    /\ books_[LadderId].bids[0] = CmePriceLevel(4900, 1, 1)
    /\ books_[LadderId].bids[1] = CmePriceLevel(4800, 2, 1)
    /\ \A i \in 2 .. (CME_MAX_DEPTH - 1) : books_[LadderId].bids[i] = ZeroLevel
    /\ stats_.add_orders = 1
    /\ stats_.delete_orders = 0

\* C26: Overlay at level L in [1,10]: afterwards position L holds (P,Q,N),
\* every other position of both sides is unchanged, and count = max(old
\* count, L); on an empty side Overlay at L leaves positions 1..L-1 zero with
\* count = L.
C26_OverlayWritesOneLevel ==
    LadderApplies =>
      \A e \in LadderEntriesInRange(Overlay) :
        LET type == e.md_entry_type
            L == e.md_price_level
            old == OwnLadder(books_[LadderId], type)
            new == OwnLadder(BookAfter(e), type)
            oldCount == OwnCount(books_[LadderId], type) IN
        /\ new[L - 1] = EntryLevel(e)
        /\ \A i \in Slots : i # L - 1 => new[i] = old[i]
        /\ OtherLadder(BookAfter(e), type) = OtherLadder(books_[LadderId], type)
        /\ OtherCount(BookAfter(e), type) = OtherCount(books_[LadderId], type)
        /\ OwnCount(BookAfter(e), type) = IF oldCount > L THEN oldCount ELSE L
        /\ (oldCount = 0 /\ old = [i \in Slots |-> ZeroLevel]) =>
              /\ \A i \in 1 .. (L - 1) : new[i - 1] = ZeroLevel
              /\ OwnCount(BookAfter(e), type) = L

\* C26 witness: Overlay at level 2 has acted on an empty ask side next to a
\* full bid side: the ask count is 2, position 1 is zero, position 2 holds the
\* level, and the bids are as the snapshot left them.
C26_Witness_OverlayOnEmptyAsks ==
    /\ LadderId \in DOMAIN books_
    /\ books_[LadderId].ask_count = 2
    /\ books_[LadderId].asks[0] = ZeroLevel
    /\ books_[LadderId].asks[1] = CmePriceLevel(7000, 5, 4)
    /\ \A i \in 2 .. (CME_MAX_DEPTH - 1) : books_[LadderId].asks[i] = ZeroLevel
    /\ books_[LadderId].bid_count = CME_MAX_DEPTH
    /\ books_[LadderId].bids[0] = CmePriceLevel(4900, 1, 1)
    /\ stats_.add_orders = 1
    /\ stats_.delete_orders = 0

\* The ladders and the counts of a book.
Ladders(book) == <<book.bids, book.asks, book.bid_count, book.ask_count>>

\* The entries of a snapshot whose level is within 1..10.
InRangeOnly(entries) ==
    SelectSeq(entries, LAMBDA e : e.md_price_level \in 1 .. CME_MAX_DEPTH)

\* The instrument is in GapDetected and further datagrams are received: a
\* snapshot for it is applied.
LadderRecovers ==
    /\ LadderReceived
    /\ LadderId \in DOMAIN books_
    /\ states_[LadderId].state = GapDetected

\* C27: an incremental or snapshot entry whose md_price_level is 0 or greater
\* than 10 leaves both ladders and both counts of the book unchanged, for each
\* of the six update actions and both sides, and raises no error: the errors
\* counter is unchanged and later entries of the same message are still
\* processed.  (For a snapshot, whose application starts from the cleared
\* book, the ladders are those the other entries alone leave.)
C27_OutOfRangeLevelIgnored ==
    /\ LadderApplies =>
         \A msg \in LadderIncrementalMsgs :
           LET e == msg.entries[1]
               after == RunIncremental(FH, <<msg>>)
               rest == RunIncremental(FH, <<IncrementalRefreshMsg(Tail(msg.entries))>>) IN
           (/\ BidSide(e.md_entry_type) \/ AskSide(e.md_entry_type)
            /\ e.md_price_level \notin 1 .. CME_MAX_DEPTH) =>
              /\ Ladders(BookAfter(e)) = Ladders(books_[LadderId])
              /\ after.stats.errors = stats_.errors
              /\ Ladders(after.bm.books[LadderId]) = Ladders(rest.bm.books[LadderId])
              /\ after.rm = rest.rm
    /\ LadderRecovers =>
         \A msg \in BookSnapshotMsgs :
           LET after == RunSnapshot(FH, <<msg>>)
               rest == RunSnapshot(FH, <<[msg EXCEPT !.entries = InRangeOnly(msg.entries)]>>) IN
           /\ after.stats.errors = stats_.errors
           /\ after.bm = rest.bm
           /\ after.rm = rest.rm

\* C27 witness: a New bid at a level outside 1..10 has acted on a book of two
\* bids and no asks: it was counted as an order added, and the ladders and
\* the counts are as the snapshot left them.
C27_Witness_NewOutOfRange ==
    /\ LadderId \in DOMAIN books_
    /\ states_[LadderId].state = Normal
    /\ stats_.add_orders = 2
    /\ stats_.errors = 0
    /\ books_[LadderId].bid_count = 2
    /\ books_[LadderId].bids[0] = CmePriceLevel(4900, 1, 1)
    /\ books_[LadderId].bids[1] = CmePriceLevel(4800, 2, 1)
    /\ books_[LadderId].bids[2] = ZeroLevel
    /\ books_[LadderId].ask_count = 0
    /\ books_[LadderId].asks = [i \in Slots |-> ZeroLevel]

\* C28: an applied incremental entry of type Trade leaves both ladders and
\* both counts unchanged whatever its action and level; it sets last trade
\* price and quantity to the entry's values and adds the entry's quantity to
\* the cumulative volume, and the cumulative volume never decreases, whatever
\* the signed quantity of the entry.
C28_TradeUpdatesTapeOnly ==
    LadderApplies =>
      \A e \in {x \in LadderEntries : x.md_entry_type = Trade} :
        /\ Ladders(BookAfter(e)) = Ladders(books_[LadderId])
        /\ BookAfter(e).last_trade_price = e.md_entry_px
        /\ BookAfter(e).last_trade_qty = e.md_entry_size
        /\ BookAfter(e).total_volume = books_[LadderId].total_volume + e.md_entry_size
        /\ BookAfter(e).total_volume >= books_[LadderId].total_volume

\* The entry with its type replaced by the implied type of the same side.
AsImplied(e) ==
    [e EXCEPT !.md_entry_type = IF e.md_entry_type = Bid THEN ImpliedBid ELSE ImpliedOffer]

\* C29: for every book state and every incremental entry, applying the entry
\* with type ImpliedBid yields exactly the same book as applying it with type
\* Bid, and likewise ImpliedOffer and Offer.
C29_ImpliedAppliedLikePlain ==
    LadderApplies =>
      \A e \in {x \in LadderEntries : x.md_entry_type \in {Bid, Offer}} :
        /\ AsImplied(e) \in LadderEntries
        /\ BookAfter(AsImplied(e)) = BookAfter(e)

\* C29 witness: an implied offer New at level 2 has acted on a book of ten
\* bids and two asks (the state is the one the plain offer leads to): three
\* asks, the new level at position 2 and the former second ask at position 3.
C29_Witness_ImpliedOfferNew ==
    /\ LadderId \in DOMAIN books_
    /\ books_[LadderId].ask_count = 3
    /\ books_[LadderId].asks[0] = CmePriceLevel(6100, 11, 2)
    /\ books_[LadderId].asks[1] = CmePriceLevel(7000, 5, 4)
    /\ books_[LadderId].asks[2] = CmePriceLevel(6200, 12, 2)
    /\ books_[LadderId].bid_count = CME_MAX_DEPTH
    /\ stats_.add_orders = 2

\* The levels within 1..10 that the entries of a snapshot carry for the side
\* chosen by the predicate on entry types.
LevelsWritten(entries, types) ==
    {entries[k].md_price_level : k \in {j \in DOMAIN entries :
        /\ entries[j].md_entry_type \in types
        /\ entries[j].md_price_level \in 1 .. CME_MAX_DEPTH}}

\* The largest element of a set of levels, 0 if there is none.
Deepest(levels) ==
    IF levels = {} THEN 0 ELSE CHOOSE L \in levels : \A M \in levels : M <= L

\* A ladder and its count hold what the entries of the given types wrote, and
\* nothing else.
HoldsWritten(ladder, count, entries, types) ==
    /\ \A k \in DOMAIN entries :
         (/\ entries[k].md_entry_type \in types
          /\ entries[k].md_price_level \in 1 .. CME_MAX_DEPTH) =>
            ladder[entries[k].md_price_level - 1] = EntryLevel(entries[k])
    /\ \A i \in Slots : (i + 1) \notin LevelsWritten(entries, types) => ladder[i] = ZeroLevel
    /\ count = Deepest(LevelsWritten(entries, types))

\* C30: a snapshot replaces the book wholesale: whatever the prior book,
\* after it is applied every snapshot entry with level L in [1,10] is stored
\* at position L-1 of the ladder selected by its entry type (the bid-side
\* types to bids, the ask-side types to asks), every slot not written by an
\* entry is zero, and each side's count is the largest L written on that side
\* (0 if none).
C30_SnapshotReplacesBook ==
    LadderRecovers =>
      \A msg \in BookSnapshotMsgs :
        LET book == RunSnapshot(FH, <<msg>>).bm.books[LadderId] IN
        /\ HoldsWritten(book.bids, book.bid_count, msg.entries, {Bid, ImpliedBid})
        /\ HoldsWritten(book.asks, book.ask_count, msg.entries, {Offer, ImpliedOffer})

\* The offsets of the message loop strictly increase: the offset after the
\* iteration on message k of a datagram lies beyond the offset before it.
OffsetsIncrease(sizes) ==
    \A k \in DOMAIN sizes : StartOffset(sizes, k + 1) > StartOffset(sizes, k)

\* The part of a datagram after its first message.
Following(data) == SubSeq(data, 2, Len(data))

\* The feed handler after a datagram that was counted as received and changed
\* nothing else.
Counted == [FH EXCEPT !.stats.messages_received = @ + 1]

\* C31: parsing any datagram terminates: in every iteration of the message
\* loop the offset strictly increases or the loop returns, whatever the template
\* and the block_length (0 and 65535 included); a message of an unknown
\* template is skipped by 8 + block_length bytes, changes no state and no
\* counter, and the messages after it in the datagram are still dispatched:
\* the datagram is handled as the one that starts 8 + block_length bytes later,
\* and as an empty one when it ends before that.
C31_UnknownTemplateSkipped ==
    FrameReceived =>
      /\ \A data \in FrameIncrementalData :
           /\ OffsetsIncrease(IncrementalSizes(data))
           /\ \A len \in FrameLengths(IncrementalSizes(data)) :
                LET skip == SIZEOF_SBEMessageHeader + data[1].block_length IN
                (/\ 1 \notin IncrementalKnown(data)
                 /\ SIZEOF_PacketHeader + SIZEOF_SBEMessageHeader <= len) =>
                  RunIncrementalDatagram(FH, data, len)
                    = IF SIZEOF_PacketHeader <= len - skip
                        THEN RunIncrementalDatagram(FH, Following(data), len - skip)
                        ELSE Counted
      /\ \A data \in FrameSnapshotData :
           /\ OffsetsIncrease(SnapshotSizes(data))
           /\ \A len \in FrameLengths(SnapshotSizes(data)) :
                LET skip == SIZEOF_SBEMessageHeader + data[1].block_length IN
                (/\ 1 \notin SnapshotKnown(data)
                 /\ SIZEOF_PacketHeader + SIZEOF_SBEMessageHeader <= len) =>
                  RunSnapshotDatagram(FH, data, len)
                    = IF SIZEOF_PacketHeader <= len - skip
                        THEN RunSnapshotDatagram(FH, Following(data), len - skip)
                        ELSE Counted

\* C31 witness: the first datagram held a message of an unknown template with
\* block_length 0 followed by an incremental refresh, and the entry of the
\* refresh was applied: the book holds its bid and nothing else was counted.
C31_Witness_EntryAfterUnknownApplied ==
    /\ FH = RunIncremental(FH0, <<UnknownEmptyMsg, IncrementalRefreshMsg(<<FrameEntry(1)>>)>>)
    /\ SECURITY_ID_ESH26 \in DOMAIN books_
    /\ books_[SECURITY_ID_ESH26].bid_count = 1
    /\ stats_.messages_received = 1
    /\ stats_.errors = 0

\* The reads of the loop of processIncrementalPacket, each given by the offset
\* just past the last byte it reads: the message header (template_id and
\* block_length), for an incremental refresh entries_header.num_in_group, the
\* last byte of MDIncrementalRefreshBook, which is read to compute msg_size
\* before msg_size is compared with len, and the whole message once a handler
\* is called on it.
RECURSIVE IncrementalReadEnds(_, _, _, _)
IncrementalReadEnds(data, len, i, offset) ==
    IF ~(offset + SIZEOF_SBEMessageHeader <= len) \/ i > Len(data) THEN {}
    ELSE LET msg_size == IncrementalMessageSize(data[i])
             header == {offset + SIZEOF_SBEMessageHeader}
             group == IF data[i].template_id = TEMPLATE_MD_INCREMENTAL_REFRESH
                        THEN {offset + SIZEOF_MDIncrementalRefreshBook} ELSE {} IN
         IF i \in IncrementalKnown(data) /\ ~(offset + msg_size <= len)
           THEN header \cup group
         ELSE header \cup group
                \cup (IF i \in IncrementalKnown(data) THEN {offset + msg_size} ELSE {})
                \cup IncrementalReadEnds(data, len, i + 1, offset + msg_size)

\* The reads of the loop of processSnapshotPacket, in the same way.
RECURSIVE SnapshotReadEnds(_, _, _, _)
SnapshotReadEnds(data, len, i, offset) ==
    IF ~(offset + SIZEOF_SBEMessageHeader <= len) \/ i > Len(data) THEN {}
    ELSE LET msg_size == SnapshotMessageSize(data[i])
             header == {offset + SIZEOF_SBEMessageHeader}
             group == IF data[i].template_id = TEMPLATE_MD_SNAPSHOT_FULL_REFRESH
                        THEN {offset + SIZEOF_MDSnapshotFullRefresh} ELSE {} IN
         IF i \in SnapshotKnown(data) /\ ~(offset + msg_size <= len)
           THEN header \cup group
         ELSE header \cup group
                \cup (IF i \in SnapshotKnown(data) THEN {offset + msg_size} ELSE {})
                \cup SnapshotReadEnds(data, len, i + 1, offset + msg_size)

\* The reads of processIncrementalPacket and processSnapshotPacket on a
\* datagram: the packet header once len has been compared with its size, then
\* those of the loop.
IncrementalPacketReadEnds(data, len) ==
    IF len < SIZEOF_PacketHeader THEN {}
    ELSE {SIZEOF_PacketHeader} \cup IncrementalReadEnds(data, len, 1, SIZEOF_PacketHeader)

SnapshotPacketReadEnds(data, len) ==
    IF len < SIZEOF_PacketHeader THEN {}
    ELSE SnapshotReadEnds(data, len, 1, SIZEOF_PacketHeader)

\* C32: while a datagram of length len is parsed no field is read at a byte
\* offset >= len: every read of a message header, a root field, a group header
\* (num_in_group included) and an entry ends within the datagram.
C32_NoReadBeyondDatagram ==
    FrameReceived =>
      /\ \A data \in FrameIncrementalData :
           \A len \in FrameLengths(IncrementalSizes(data)) :
             \A end \in IncrementalPacketReadEnds(data, len) : end <= len
      /\ \A data \in FrameSnapshotData :
           \A len \in FrameLengths(SnapshotSizes(data)) :
             needsRecovery(FH.rm) =>
               \A end \in SnapshotPacketReadEnds(data, len) : end <= len

\* What a sweep that reports an instrument leaves in its record: one more
\* recovery attempt and the time of the sweep.
Reported(before, after, current_time) ==
    /\ after.recovery_attempts = before.recovery_attempts + 1
    /\ after.gap_detected_time = current_time

\* C33: the recovery-timeout sweep reports an instrument only if its state is
\* not Normal and more than the recovery timeout has elapsed since its
\* gap_detected_time; on a report recovery_attempts grows by one and
\* gap_detected_time becomes the time of the sweep, so that a sweep within the
\* timeout after it does not report the instrument again; and the sweep changes
\* no instrument's state, expected_rpt_seq, last_good_rpt_seq or book.
C33_SweepReportsOnlyAfterTimeout ==
    AttemptsBelowCap =>
      \A current_time \in ClockReadings :
        LET r == checkTimeouts(FH.rm, current_time, recovery_timeout_ns)
            after == RunCheckTimeouts(FH, current_time, recovery_timeout_ns) IN
        /\ \A id \in r.timed_out :
              /\ states_[id].state # Normal
              /\ states_[id].gap_detected_time # 0
              /\ current_time - states_[id].gap_detected_time > recovery_timeout_ns
              /\ Reported(states_[id], after.rm.states[id], current_time)
              /\ \A later \in ClockReadings :
                    (later >= current_time /\ later - current_time <= recovery_timeout_ns) =>
                      id \notin checkTimeouts(after.rm, later, recovery_timeout_ns).timed_out
        /\ DOMAIN after.rm.states = DOMAIN states_
        /\ \A id \in DOMAIN states_ :
              /\ after.rm.states[id].state = states_[id].state
              /\ after.rm.states[id].expected_rpt_seq = states_[id].expected_rpt_seq
              /\ after.rm.states[id].last_good_rpt_seq = states_[id].last_good_rpt_seq
        /\ after.bm = FH.bm

\* The wire price p with its last three decimals cut: 1000 * floor(p / 1000).
Rescaled(p) == 1000 * (p \div 1000)

\* C34: for every level and for the last trade price of every published
\* snapshot, the published 7-decimal price equals 1000 * floor(p / 1000) with p
\* the 64-bit signed wire price held in the book: the division by 1000 into a
\* 32-bit unsigned value never wraps modulo 2^32 and never turns a negative
\* price into a positive one.
C34_PublishedPriceIsRescaledWirePrice ==
    \A k \in DOMAIN sent :
        LET m == sent[k]
            book == books_[SecurityIdOf(m.symbol)] IN
        /\ \A i \in 1 .. m.bidCount : m.bids[i].price = Rescaled(book.bids[i - 1].price)
        /\ \A i \in 1 .. m.askCount : m.asks[i].price = Rescaled(book.asks[i - 1].price)
        /\ m.lastTradePrice = Rescaled(book.last_trade_price)

\* C35: the Recovering state is never observable between events: after any
\* datagram has been handled every instrument is in Normal or GapDetected,
\* because an accepted snapshot is followed by completeRecovery within the same
\* handler; so no entry and no snapshot ever finds an instrument in Recovering.
C35_RecoveringNeverObservable ==
    \A id \in DOMAIN states_ : states_[id].state \in {Normal, GapDetected}

\* C35 witness: a snapshot was accepted for an instrument in GapDetected (it
\* passed through Recovering within the handler): one gap and one recovery were
\* counted, the instrument is Normal at the sequence after the snapshot's and
\* its record still carries the snapshot_rpt_seq written on the way.
C35_Witness_SnapshotAcceptedInGap ==
    \E id \in DOMAIN states_ :
        /\ states_[id].state = Normal
        /\ states_[id].snapshot_rpt_seq = 2
        /\ states_[id].last_good_rpt_seq = 2
        /\ recovery_stats_.gaps_detected = 1
        /\ recovery_stats_.recoveries_completed = 1

\* The datagrams of the incremental channel with one message that is not a
\* ChannelReset.
NonResetDatagrams ==
    {<<msg>> : msg \in FeedIncrementalMsgs}
      \cup {<<SecurityDefinitionMsg(id)>> : id \in SecurityIds}
      \cup {<<HeartbeatMsg>>}

\* C36: an instrument leaves GapDetected only through an accepted snapshot for
\* that instrument or a ChannelReset: every other datagram of the incremental
\* channel and every snapshot for another instrument leaves it in GapDetected;
\* and a SecurityDefinition for an instrument that already has a recovery
\* record leaves its state, expected_rpt_seq and last_good_rpt_seq unchanged.
C36_GapLeftOnlyBySnapshotOrReset ==
    stats_.messages_received < MaxMessages =>
      \A id \in DOMAIN states_ :
        /\ states_[id].state = GapDetected =>
              /\ \A data \in NonResetDatagrams :
                    RunIncremental(FH, data).rm.states[id].state = GapDetected
              /\ \A msg \in FeedSnapshotMsgs :
                    msg.security_id # id =>
                      RunSnapshot(FH, <<msg>>).rm.states[id].state = GapDetected
        /\ LET after == RunIncremental(FH, <<SecurityDefinitionMsg(id)>>).rm.states[id] IN
              /\ after.state = states_[id].state
              /\ after.expected_rpt_seq = states_[id].expected_rpt_seq
              /\ after.last_good_rpt_seq = states_[id].last_good_rpt_seq

\* C37: in every reachable state recoveries_completed <= gaps_detected: a
\* recovery is counted only for an instrument that had a gap detected, one
\* recovery per gap.
C37_RecoveriesNeverExceedGaps ==
    recovery_stats_.recoveries_completed <= recovery_stats_.gaps_detected

\* C38: duplicate delivery is harmless: for an instrument in Normal,
\* delivering the same incremental datagram twice in succession (same entries,
\* same rpt_seq) leaves the book as delivering it once does, for every update
\* action.
C38_DuplicateDatagramLeavesBookAlone ==
    LadderApplies =>
      \A msg \in LadderIncrementalMsgs :
        LET once == RunIncremental(FH, <<msg>>)
            twice == RunIncremental(once, <<msg>>) IN
        twice.bm.books = once.bm.books

\* The instrument has gone through a gap and is back in Normal.
ReturnedToNormal ==
    /\ recovery_stats_.gaps_detected > 0
    /\ ConvergeId \in DOMAIN states_
    /\ states_[ConvergeId].state = Normal

\* C39: recovery converges: after a gap is detected, with no datagram lost
\* from then on, the incremental entries arriving in rpt_seq order and the
\* snapshots carrying the rpt_seq of the stream at the time they were
\* produced, in any interleaving, the instrument returns to Normal and then
\* stays Normal, never re-entering GapDetected.
C39_RecoveryConverges ==
    [][ReturnedToNormal => states_'[ConvergeId].state = Normal]_vars

\* C40: the book and the recovery record agree on the sequence: in every
\* reachable state in which an instrument is Normal and has both a book and a
\* recovery record, the last_rpt_seq of the book equals the last_good_rpt_seq
\* of the record, after any sequence of incremental refreshes, snapshots,
\* security definitions and channel resets.
C40_BookAndRecordAgreeOnSequence ==
    \A id \in DOMAIN states_ \cap DOMAIN books_ :
        states_[id].state = Normal =>
            books_[id].last_rpt_seq = states_[id].last_good_rpt_seq

====
